---- MODULE Spec2Model ----
(***************************************************************************)
(* The content script of ContextLingo (src/entrypoints/content/index.tsx): *)
(* the page scanner, the TranslationScheduler (buffer, debounce timer,     *)
(* request queue, rate-limited worker loop) and applyTranslation.          *)
(*                                                                         *)
(* A text is a sequence of characters; a character is a string naming one  *)
(* code point ("U+4E2D" stands for a CJK ideograph, "c" for the letter c). *)
(* Time is kept as the milliseconds left on each pending timeout.          *)
(***************************************************************************)
EXTENDS Integers, Sequences, FiniteSets, TLC

\* ------------------------------------------------------------------ bounds

\* additions to the page
MaxAppends == 3

\* the most calls of playTextToSpeech
MaxCalls == 3

\* ------------------------------------------------------- program constants

maxBatchSize == 30
maxCharCount == 3000
rateLimitDelay == 350
debounceDelay == 150

\* ------------------------------------------------------------------- texts

zh == "U+4E2D"
chi == "U+5403"
SP == " "
NL == "\n"
BAR == "|"

\* /[一-龥]/
CJK == {zh, chi}

\* the characters \s matches and trim() strips
WhiteSpace == {SP, NL}

\* String.prototype.toLowerCase, per character
toLowerCaseChar(c) == IF c = "E" THEN "e" ELSE IF c = "S" THEN "s" ELSE c

toLowerCase(t) == [i \in 1..Len(t) |-> toLowerCaseChar(t[i])]

\* /[一-龥]/.test(t)
hasChinese(t) == \E i \in 1..Len(t) : t[i] \in CJK

\* first index >= i of t that holds no white space (Len(t)+1 when none)
skipSpace(t, i) ==
    CHOOSE k \in i..(Len(t) + 1) :
        /\ k = Len(t) + 1 \/ t[k] \notin WhiteSpace
        /\ \A j \in i..(k - 1) : t[j] \in WhiteSpace

\* last index <= i of t that holds no white space (0 when none)
skipSpaceBack(t, i) ==
    CHOOSE k \in 0..i :
        /\ k = 0 \/ t[k] \notin WhiteSpace
        /\ \A j \in (k + 1)..i : t[j] \in WhiteSpace

\* String.prototype.trim
trim(t) == SubSeq(t, skipSpace(t, 1), skipSpaceBack(t, Len(t)))

\* String.prototype.includes
includes(t, w) ==
    \E i \in 0..(Len(t) - Len(w)) : SubSeq(t, i + 1, i + Len(w)) = w

\* Array.prototype.join
RECURSIVE join(_, _)
join(texts, delim) ==
    IF texts = <<>> THEN <<>>
    ELSE IF Len(texts) = 1 THEN texts[1]
    ELSE texts[1] \o delim \o join(Tail(texts), delim)

\* the scheduler's delimiter "\n|||\n"
delimiter == <<NL, BAR, BAR, BAR, NL>>

\* /\s*\|\|\|\s*/ tried at index q of t: the index after the match, or 0
matchSplitPattern(t, q) ==
    LET j == skipSpace(t, q)
    IN  IF j + 2 <= Len(t) /\ t[j] = BAR /\ t[j + 1] = BAR /\ t[j + 2] = BAR
        THEN skipSpace(t, j + 3)
        ELSE 0

\* the first index >= q of t at which the split pattern matches, or 0
searchSplitPattern(t, q) ==
    LET found == { k \in q..Len(t) : matchSplitPattern(t, k) > 0 }
    IN  IF found = {} THEN 0
        ELSE CHOOSE k \in found : \A j \in found : k <= j

\* String.prototype.split(splitPattern), for the rest of t from index p on
RECURSIVE splitFrom(_, _)
splitFrom(t, p) ==
    LET q == searchSplitPattern(t, p)
    IN  IF q = 0 THEN << SubSeq(t, p, Len(t)) >>
        ELSE << SubSeq(t, p, q - 1) >> \o splitFrom(t, matchSplitPattern(t, q))

split(t) == splitFrom(t, 1)

\* -------------------------------------------------------------- vocabulary

\* the WordEntry snapshot: text is the English spelling, translation the
\* Chinese meaning
currentEntries ==
    << [id |-> "e1", text |-> <<"e", "a", "t">>, translation |-> <<chi>>,
        inflections |-> { <<"a", "t", "e">> }] >>

\* ------------------------------------------------------------------- state

VARIABLES
    dom,               \* the page's elements in document order
    buffer,            \* TranslationScheduler.buffer
    requestQueue,      \* TranslationScheduler.requestQueue
    isProcessingQueue, \* TranslationScheduler.isProcessingQueue
    timer,             \* TranslationScheduler.timer: "null" or "set"
    flushTimeout,      \* ms left on the pending debounce timeout, -1: none
    workers,           \* the processQueue invocations that have not returned
    currentEngines,    \* the TranslationEngine list
    currentAutoTranslate, \* the AutoTranslateConfig in use
    pushed,            \* history: every batch pushed, in order
    sent,              \* history: every batch sent, in order
    dropped,           \* history: every batch shifted but not sent, in order
    applied,           \* history: per element id, the texts applyTranslation got
    sinceDone,         \* history: ms since the last completion (-1: none yet)
    sendGap,           \* history: sinceDone when the last request was sent
    appends,           \* additions to the page so far
    accepted,          \* history: the ids of the elements a walk has accepted
    observing,         \* main has installed the MutationObserver
    observerTimeouts,  \* ms left on each pending timeout the observer has set
    debounceTimer,     \* the place in observerTimeouts of the timeout that
                       \* debounceTimer names; 0: it names no pending timeout
    sinceMutation,     \* history: ms since the last callback with added nodes
                       \* that no rescan has followed yet (-1: none)
    listening,         \* main has registered the onMessage listener
    initialScanTimeout, \* ms left on the timeout of the initial scan, -1: none
    unanswered,        \* history: a TRIGGER_TRANSLATION message met no listener
    activeBubbles,     \* ContentOverlay: the bubbles shown, in order
    showTimer,         \* showTimer.current: 0 is null, -1 names a timeout that
                       \* has fired or been cleared, else a pending handle
    showTimeouts,      \* the pending show timeouts
    hideTimers,        \* hideTimers.current: entry id -> handle, 0: no key
    hideTimeouts,      \* the pending hide timeouts
    interactionConfig, \* ContentOverlay: the WordInteractionConfig in use
    entriesRef,        \* ContentOverlay: the WordEntry list in use
    pointer,           \* history: the annotated word or the bubble the pointer
                       \* entered last, over "none" once it has left
    storedEntries,     \* the value of entriesStorage
    promotions,        \* the calls of handleAddWordToLearning in progress
    promoted,          \* history: the ids whose promotion has completed
    voices,            \* speechSynthesis.getVoices() is not empty
    isLoaded,          \* utils/audio: isLoaded (cachedVoices is filled)
    speechQueue,       \* speechSynthesis: the utterance being spoken and the
                       \* utterances queued behind it
    waiting,           \* the calls of playTextToSpeech that await
                       \* waitForVoices, in call order
    lastCall           \* history: the number, text and repeat of the last
                       \* call of playTextToSpeech that passed its guard

vars ==
    << dom, buffer, requestQueue, isProcessingQueue, timer, flushTimeout,
       workers, currentEngines, currentAutoTranslate, pushed, sent, dropped,
       applied, sinceDone, sendGap, appends, accepted, observing,
       observerTimeouts, debounceTimer, sinceMutation, listening,
       initialScanTimeout, unanswered, activeBubbles, showTimer,
       showTimeouts, hideTimers, hideTimeouts, interactionConfig,
       entriesRef, pointer, storedEntries, promotions, promoted, voices,
       isLoaded, speechQueue, waiting, lastCall >>

\* the speech synthesis and the state of utils/audio
speech == << voices, isLoaded, speechQueue, waiting, lastCall >>

\* the state of the ContentOverlay component and of the vocabulary store it
\* reads and writes
overlay ==
    << activeBubbles, showTimer, showTimeouts, hideTimers, hideTimeouts,
       interactionConfig, entriesRef, pointer, storedEntries, promotions,
       promoted >>

\* the variables no handler of the translation pipeline writes
outside == << listening, unanswered, overlay, speech >>

\* the state the scheduler's methods read and write, as one record
Cur ==
    [dom |-> dom, buffer |-> buffer, requestQueue |-> requestQueue,
     isProcessingQueue |-> isProcessingQueue, timer |-> timer,
     flushTimeout |-> flushTimeout, workers |-> workers,
     currentEngines |-> currentEngines,
     currentAutoTranslate |-> currentAutoTranslate,
     pushed |-> pushed, sent |-> sent, dropped |-> dropped,
     applied |-> applied, sinceDone |-> sinceDone,
     sendGap |-> sendGap, accepted |-> accepted, observing |-> observing,
     observerTimeouts |-> observerTimeouts, debounceTimer |-> debounceTimer,
     sinceMutation |-> sinceMutation]

Commit(s) ==
    /\ dom' = s.dom
    /\ buffer' = s.buffer
    /\ requestQueue' = s.requestQueue
    /\ isProcessingQueue' = s.isProcessingQueue
    /\ timer' = s.timer
    /\ flushTimeout' = s.flushTimeout
    /\ workers' = s.workers
    /\ currentEngines' = s.currentEngines
    /\ currentAutoTranslate' = s.currentAutoTranslate
    /\ pushed' = s.pushed
    /\ sent' = s.sent
    /\ dropped' = s.dropped
    /\ applied' = s.applied
    /\ sinceDone' = s.sinceDone
    /\ sendGap' = s.sendGap
    /\ accepted' = s.accepted
    /\ observing' = s.observing
    /\ observerTimeouts' = s.observerTimeouts
    /\ debounceTimer' = s.debounceTimer
    /\ sinceMutation' = s.sinceMutation

\* TRUE of every record; asking it makes the model checker compute the
\* record before it goes on, so that long loops do not nest
evaluated(s) == DOMAIN s # {}

\* --------------------------------------------------------------------- DOM

\* The document is the sequence of its elements in document order; an
\* element names its parent by id, 0 standing for document.body. The field
\* innerText of an element is the text of its own child nodes.

\* the position in the document of the element with this id
indexOf(d, id) == CHOOSE i \in 1..Len(d) : d[i].id = id

\* the ids of the elements above the element with this id
RECURSIVE ancestors(_, _)
ancestors(d, id) ==
    LET p == d[indexOf(d, id)].parentElement
    IN  IF p = 0 THEN {} ELSE { p } \cup ancestors(d, p)

\* the position of the last element below the element at position i, or i
subtreeEnd(d, i) ==
    CHOOSE j \in i..Len(d) :
        /\ \A k \in (i + 1)..j : d[i].id \in ancestors(d, d[k].id)
        /\ j < Len(d) => d[i].id \notin ancestors(d, d[j + 1].id)

RECURSIVE concat(_)
concat(texts) ==
    IF texts = <<>> THEN <<>> ELSE Head(texts) \o concat(Tail(texts))

\* el.innerText: the text of the element at position i and of the elements
\* below it
innerText(d, i) ==
    IF subtreeEnd(d, i) = i THEN d[i].innerText
    ELSE concat([k \in 1..(subtreeEnd(d, i) - i + 1) |-> d[i + k - 1].innerText])

\* el.nextElementSibling, as a position; 0 when there is none
nextElementSibling(d, i) ==
    LET j == subtreeEnd(d, i) + 1
    IN  IF j <= Len(d) /\ d[j].parentElement = d[i].parentElement THEN j ELSE 0

\* block.setAttribute('data-context-lingo-scanned', v)
setAttribute(s, id, v) ==
    [s EXCEPT !.dom[indexOf(s.dom, id)].scanned = v]

\* block.after(el)
after(d, id, el) ==
    LET i == subtreeEnd(d, indexOf(d, id))
    IN  SubSeq(d, 1, i) \o << el >> \o SubSeq(d, i + 1, Len(d))

\* ---------------------------------------------------- TranslationScheduler

\* the batch of a worker that holds none
NoBatch == [combinedText |-> <<>>, items |-> <<>>]

RECURSIVE removeAt(_, _)
removeAt(q, i) ==
    IF i = 1 THEN Tail(q) ELSE << Head(q) >> \o removeAt(Tail(q), i - 1)

\* buffer.reduce((acc, item) => acc + item.sourceText.length, 0)
RECURSIVE charCount(_)
charCount(items) ==
    IF items = <<>> THEN 0
    ELSE Len(Head(items).sourceText) + charCount(Tail(items))

\* what the history keeps of a batch: its blocks and its source characters
summary(items) ==
    [blocks |-> [i \in 1..Len(items) |-> items[i].block],
     chars |-> charCount(items)]

\* currentEngines.find(e => e.isEnabled)
findEnabled(engines) ==
    IF \E i \in 1..Len(engines) : engines[i].isEnabled
    THEN LET i == CHOOSE k \in 1..Len(engines) :
                    /\ engines[k].isEnabled
                    /\ \A j \in 1..(k - 1) : ~engines[j].isEnabled
         IN  << engines[i] >>
    ELSE <<>>

\* processQueue's loop taking the newest batch instead of the oldest
processQueueLoop_Pop(s, w) ==
    IF s.requestQueue = <<>>
    THEN [s EXCEPT !.isProcessingQueue = FALSE, !.workers = removeAt(@, w)]
    ELSE LET batchRequest == s.requestQueue[Len(s.requestQueue)]
             s1 == [s EXCEPT !.requestQueue = removeAt(@, Len(@))]
             engine == findEnabled(s1.currentEngines)
         IN  IF engine = <<>>
             THEN [s1 EXCEPT !.isProcessingQueue = FALSE,
                             !.workers = removeAt(@, w),
                             !.dropped = Append(@, summary(batchRequest.items))]
             ELSE [s1 EXCEPT !.workers[w] =
                                 [pc |-> "await", batchRequest |-> batchRequest,
                                  left |-> 0],
                             !.sent = Append(@, summary(batchRequest.items)),
                             !.sendGap = s.sinceDone]

\* processQueue's loop returning on a missing engine with the flag still set
processQueueLoop_FlagKept(s, w) ==
    IF s.requestQueue = <<>>
    THEN [s EXCEPT !.isProcessingQueue = FALSE, !.workers = removeAt(@, w)]
    ELSE LET batchRequest == Head(s.requestQueue)
             s1 == [s EXCEPT !.requestQueue = Tail(@)]
             engine == findEnabled(s1.currentEngines)
         IN  IF engine = <<>>
             THEN [s1 EXCEPT !.workers = removeAt(@, w),
                             !.dropped = Append(@, summary(batchRequest.items))]
             ELSE [s1 EXCEPT !.workers[w] =
                                 [pc |-> "await", batchRequest |-> batchRequest,
                                  left |-> 0],
                             !.sent = Append(@, summary(batchRequest.items)),
                             !.sendGap = s.sinceDone]

\* processQueue, the while loop from its head up to the next await or return,
\* run by worker w
processQueueLoop(s, w) ==
    IF s.requestQueue = <<>>
    THEN [s EXCEPT !.isProcessingQueue = FALSE, !.workers = removeAt(@, w)]
    ELSE LET batchRequest == Head(s.requestQueue)
             s1 == [s EXCEPT !.requestQueue = Tail(@)]
             engine == findEnabled(s1.currentEngines)
         IN  IF engine = <<>>
             THEN [s1 EXCEPT !.isProcessingQueue = FALSE,
                             !.workers = removeAt(@, w),
                             !.dropped = Append(@, summary(batchRequest.items))]
             ELSE [s1 EXCEPT !.workers[w] =
                                 [pc |-> "await", batchRequest |-> batchRequest,
                                  left |-> 0],
                             !.sent = Append(@, summary(batchRequest.items)),
                             !.sendGap = s.sinceDone]

\* processQueue without the check of the running flag
processQueue_Unguarded(s) ==
    processQueueLoop(
        [s EXCEPT !.isProcessingQueue = TRUE,
                  !.workers = Append(@, [pc |-> "loop", batchRequest |-> NoBatch,
                                        left |-> 0])],
        Len(s.workers) + 1)

\* processQueue, from its call up to the first await or return
processQueue(s) ==
    IF s.isProcessingQueue THEN s
    ELSE processQueueLoop(
             [s EXCEPT !.isProcessingQueue = TRUE,
                       !.workers = Append(@, [pc |-> "loop", batchRequest |-> NoBatch,
                                             left |-> 0])],
             Len(s.workers) + 1)

\* flushBufferToQueue pushing the batch without the call of processQueue
flushBufferToQueue_NoTrigger(s) ==
    IF s.buffer = <<>> THEN s
    ELSE LET s1 == IF s.timer # "null"
                   THEN [s EXCEPT !.flushTimeout = -1, !.timer = "null"]
                   ELSE s
             batchItems == s1.buffer
             combinedText ==
                 join([i \in 1..Len(batchItems) |-> batchItems[i].sourceText],
                      delimiter)
         IN  [s1 EXCEPT !.buffer = <<>>,
                        !.requestQueue =
                            Append(@, [combinedText |-> combinedText,
                                       items |-> batchItems]),
                        !.pushed = Append(@, summary(batchItems))]

flushBufferToQueue(s) ==
    IF s.buffer = <<>> THEN s
    ELSE LET s1 == IF s.timer # "null"
                   THEN [s EXCEPT !.flushTimeout = -1, !.timer = "null"]
                   ELSE s
             batchItems == s1.buffer
             combinedText ==
                 join([i \in 1..Len(batchItems) |-> batchItems[i].sourceText],
                      delimiter)
         IN  processQueue(
                 [s1 EXCEPT !.buffer = <<>>,
                            !.requestQueue =
                                Append(@, [combinedText |-> combinedText,
                                           items |-> batchItems]),
                            !.pushed = Append(@, summary(batchItems))])

\* scheduleFlush flushing only once a limit is exceeded
scheduleFlush_Exceeds(s) ==
    LET currentChars == charCount(s.buffer)
    IN  IF Len(s.buffer) > maxBatchSize \/ currentChars > maxCharCount
        THEN flushBufferToQueue(
                 IF s.timer # "null" THEN [s EXCEPT !.flushTimeout = -1] ELSE s)
        ELSE IF s.timer = "null"
             THEN [s EXCEPT !.timer = "set", !.flushTimeout = debounceDelay]
             ELSE s

\* scheduleFlush restarting an armed timer on every add below the limits
scheduleFlush_Restart(s) ==
    LET currentChars == charCount(s.buffer)
    IN  IF Len(s.buffer) >= maxBatchSize \/ currentChars >= maxCharCount
        THEN flushBufferToQueue(
                 IF s.timer # "null" THEN [s EXCEPT !.flushTimeout = -1] ELSE s)
        ELSE [s EXCEPT !.timer = "set", !.flushTimeout = debounceDelay]

scheduleFlush(s) ==
    LET currentChars == charCount(s.buffer)
    IN  IF Len(s.buffer) >= maxBatchSize \/ currentChars >= maxCharCount
        THEN flushBufferToQueue(
                 IF s.timer # "null" THEN [s EXCEPT !.flushTimeout = -1] ELSE s)
        ELSE IF s.timer = "null"
             THEN [s EXCEPT !.timer = "set", !.flushTimeout = debounceDelay]
             ELSE s

\* add without the 'pending' mark on the block it buffers
add_Unmarked(s, block) ==
    LET el == s.dom[indexOf(s.dom, block)]
        sourceText == trim(innerText(s.dom, indexOf(s.dom, block)))
    IN  IF el.scanned # "" THEN s
        ELSE IF Len(sourceText) < 2 \/ ~hasChinese(sourceText) THEN s
        ELSE scheduleFlush(
                 [s EXCEPT !.buffer = Append(@, [block |-> block,
                                                 sourceText |-> sourceText])])

add(s, block) ==
    LET el == s.dom[indexOf(s.dom, block)]
        sourceText == trim(innerText(s.dom, indexOf(s.dom, block)))
    IN  IF el.scanned # "" THEN s
        ELSE IF Len(sourceText) < 2 \/ ~hasChinese(sourceText) THEN s
        ELSE scheduleFlush(
                 [setAttribute(s, block, "pending") EXCEPT
                      !.buffer = Append(@, [block |-> block,
                                            sourceText |-> sourceText])])

\* ------------------------------------------------------- applyTranslation

\* document.createTextNode(part)
createTextNode(text) == [kind |-> "text", nodeValue |-> text]

\* an inline element of this class with these child nodes
createInline(className, childNodes) ==
    [kind |-> "span", className |-> className, original |-> <<>>,
     replacement |-> <<>>, entry |-> "", childNodes |-> childNodes]

\* the span processTextNode builds for a match; its innerHTML comes from
\* utils/dom-builder.buildReplacementHtml and is kept as the texts given to
\* it: the replacement and the original
createSpan(match) ==
    [kind |-> "span", className |-> "context-lingo-word",
     original |-> match.text, replacement |-> match.entry.text,
     entry |-> match.entry.id,
     childNodes |-> << createTextNode(match.entry.text),
                       createTextNode(match.text) >>]

\* the classes of the elements whose text is not to be annotated
AnnotationClasses == { "context-lingo-wrapper", "context-lingo-word" }

\* validMatches.sort((a, b) => b.text.length - a.text.length)
RECURSIVE sortByLength(_)
sortByLength(validMatches) ==
    IF validMatches = <<>> THEN <<>>
    ELSE LET k == CHOOSE i \in 1..Len(validMatches) :
                      /\ \A j \in 1..Len(validMatches) :
                             Len(validMatches[j].text) <= Len(validMatches[i].text)
                      /\ \A j \in 1..(i - 1) :
                             Len(validMatches[j].text) < Len(validMatches[i].text)
         IN  << validMatches[k] >> \o sortByLength(removeAt(validMatches, k))

\* the pattern matches at position q of text: the first alternative that does
matchAt(text, q, validMatches) ==
    LET fits(m) == /\ m.text # <<>>
                   /\ q + Len(m.text) - 1 <= Len(text)
                   /\ SubSeq(text, q, q + Len(m.text) - 1) = m.text
    IN  IF \E i \in 1..Len(validMatches) : fits(validMatches[i])
        THEN CHOOSE i \in 1..Len(validMatches) :
                 /\ fits(validMatches[i])
                 /\ \A j \in 1..(i - 1) : ~fits(validMatches[j])
        ELSE 0

\* a split that looks for the next match one character after the start of
\* the last one instead of after its end
RECURSIVE splitByPattern_Overlapping(_, _, _)
splitByPattern_Overlapping(text, p, validMatches) ==
    LET hits == { q \in p..Len(text) : matchAt(text, q, validMatches) # 0 }
    IN  IF hits = {} THEN << SubSeq(text, p, Len(text)) >>
        ELSE LET q == CHOOSE x \in hits : \A y \in hits : x <= y
                 m == validMatches[matchAt(text, q, validMatches)].text
             IN  << SubSeq(text, p, q - 1), m >>
                     \o splitByPattern_Overlapping(text, q + 1, validMatches)

\* text.split(pattern) with the pattern's capturing group, from position p on
RECURSIVE splitByPattern(_, _, _)
splitByPattern(text, p, validMatches) ==
    LET hits == { q \in p..Len(text) : matchAt(text, q, validMatches) # 0 }
    IN  IF hits = {} THEN << SubSeq(text, p, Len(text)) >>
        ELSE LET q == CHOOSE x \in hits : \A y \in hits : x <= y
                 m == validMatches[matchAt(text, q, validMatches)].text
             IN  << SubSeq(text, p, q - 1), m >>
                     \o splitByPattern(text, q + Len(m), validMatches)

\* processTextNode with the white space around a plain piece trimmed away
processTextNode_Trimmed(textNode, validMatches) ==
    LET text == textNode.nodeValue
        sorted == sortByLength(validMatches)
        parts == splitByPattern(text, 1, sorted)
        nodeOf(part) ==
            IF \E i \in 1..Len(sorted) : sorted[i].text = part
            THEN createSpan(sorted[CHOOSE i \in 1..Len(sorted) :
                                       /\ sorted[i].text = part
                                       /\ \A j \in 1..(i - 1) :
                                              sorted[j].text # part])
            ELSE createTextNode(trim(part))
    IN  IF text = <<>> THEN << textNode >>
        ELSE IF Len(parts) = 1 THEN << textNode >>
        ELSE [i \in 1..Len(parts) |-> nodeOf(parts[i])]

\* processTextNode: the nodes that take the place of the text node
processTextNode(textNode, validMatches) ==
    LET text == textNode.nodeValue
        sorted == sortByLength(validMatches)
        parts == splitByPattern(text, 1, sorted)
        nodeOf(part) ==
            IF \E i \in 1..Len(sorted) : sorted[i].text = part
            THEN createSpan(sorted[CHOOSE i \in 1..Len(sorted) :
                                       /\ sorted[i].text = part
                                       /\ \A j \in 1..(i - 1) :
                                              sorted[j].text # part])
            ELSE createTextNode(part)
    IN  IF text = <<>> THEN << textNode >>
        ELSE IF Len(parts) = 1 THEN << textNode >>
        ELSE [i \in 1..Len(parts) |-> nodeOf(parts[i])]

\* textNodes.forEach over the text nodes below these child nodes without the
\* two closest() tests: every text node is handed to processTextNode
RECURSIVE replaceTextNodes_Unguarded(_, _)
replaceTextNodes_Unguarded(childNodes, validMatches) ==
    IF childNodes = <<>> THEN <<>>
    ELSE LET node == Head(childNodes)
         IN  (IF node.kind = "text"
              THEN processTextNode(node, validMatches)
              ELSE << [node EXCEPT !.childNodes =
                           replaceTextNodes_Unguarded(@, validMatches)] >>)
                 \o replaceTextNodes_Unguarded(Tail(childNodes), validMatches)

\* textNodes.forEach(tn => processTextNode(tn, replacementCandidates)) over
\* the text nodes below these child nodes, in document order; a text node
\* with a context-lingo-wrapper or context-lingo-word element above it is
\* skipped
RECURSIVE replaceTextNodes(_, _)
replaceTextNodes(childNodes, validMatches) ==
    IF childNodes = <<>> THEN <<>>
    ELSE LET node == Head(childNodes)
         IN  (IF node.kind = "text"
              THEN processTextNode(node, validMatches)
              ELSE IF node.className \in AnnotationClasses
                   THEN << node >>
                   ELSE << [node EXCEPT !.childNodes =
                                replaceTextNodes(@, validMatches)] >>)
                 \o replaceTextNodes(Tail(childNodes), validMatches)

\* the walk over the text nodes of the block at position i and of the
\* elements below it
replaceUnder(d, i, validMatches) ==
    [k \in 1..Len(d) |->
        IF k >= i /\ k <= subtreeEnd(d, i)
        THEN [d[k] EXCEPT !.childNodes = replaceTextNodes(@, validMatches)]
        ELSE d[k]]

\* a new element of the document: rendered in the flow, not editable, with
\* no attribute but its class
createElement(id, tagName, parentElement, text, className) ==
    [id |-> id, tagName |-> tagName, parentElement |-> parentElement,
     innerText |-> text, scanned |-> "", className |-> className,
     childNodes |-> IF text = <<>> THEN <<>> ELSE << createTextNode(text) >>,
     isContentEditable |-> FALSE, container |-> FALSE, offsetParent |-> "body",
     role |-> ""]

\* entry passes applyTranslation's verification against the translated text
isVerified(entry, translatedText, matchInflections) ==
    LET text == toLowerCase(entry.text)
        targetLower == toLowerCase(translatedText)
    IN  \/ includes(targetLower, text)
        \/ /\ matchInflections
           /\ \E infl \in entry.inflections :
                  includes(targetLower, toLowerCase(infl))

\* utils/matching.findFuzzyMatches: the entries whose translation occurs
\* literally in the source text, each with the matched substring
findFuzzyMatches(sourceText, entries) ==
    LET found == SelectSeq(entries,
                     LAMBDA e : e.translation # <<>>
                                /\ includes(sourceText, e.translation))
    IN  [i \in 1..Len(found) |->
             [text |-> found[i].translation, entry |-> found[i]]]

applyTranslation(s, block, sourceText, translatedText) ==
    LET i == indexOf(s.dom, block)
        nextIsBilingual ==
            /\ nextElementSibling(s.dom, i) # 0
            /\ s.dom[nextElementSibling(s.dom, i)].className
                   = "context-lingo-bilingual-block"
        s1 == IF s.currentAutoTranslate.bilingualMode /\ ~nextIsBilingual
              THEN [s EXCEPT !.dom = after(@, block,
                                  createElement(Len(s.dom) + 1, "DIV",
                                      s.dom[i].parentElement, translatedText,
                                      "context-lingo-bilingual-block")),
                             !.applied = Append(@, <<>>)]
              ELSE s
        s2 == [s1 EXCEPT !.applied[block] = Append(@, translatedText)]
        verifiedEntries ==
            SelectSeq(currentEntries,
                LAMBDA e : isVerified(e, translatedText,
                               s.currentAutoTranslate.matchInflections))
        replacementCandidates == findFuzzyMatches(sourceText, verifiedEntries)
    IN  IF Len(verifiedEntries) = 0
        THEN setAttribute(s2, block, "skipped_no_en_match")
        ELSE IF Len(replacementCandidates) > 0
             THEN [setAttribute(s2, block, "true") EXCEPT
                       !.dom = replaceUnder(@, indexOf(s2.dom, block),
                                            replacementCandidates)]
             ELSE setAttribute(s2, block, "skipped_fuzzy_fail")

\* translatedParts[index + 1] || ""
partAt_Shifted(translatedParts, index) ==
    IF index + 1 <= Len(translatedParts) THEN translatedParts[index + 1]
    ELSE <<>>

\* the last part for a block that has none
partAt_Clamped(translatedParts, index) ==
    IF index <= Len(translatedParts) THEN translatedParts[index]
    ELSE translatedParts[Len(translatedParts)]

\* translatedParts[index] || ""
partAt(translatedParts, index) ==
    IF index <= Len(translatedParts) THEN translatedParts[index] ELSE <<>>

\* batchRequest.items.forEach((item, index) => applyTranslation(...)), from
\* the item at position index on
RECURSIVE applyEach(_, _, _, _)
applyEach(s, items, translatedParts, index) ==
    IF index > Len(items) THEN s
    ELSE LET s1 == applyTranslation(s, items[index].block,
                                    items[index].sourceText,
                                    partAt(translatedParts, index))
         IN  IF evaluated(s1)
             THEN applyEach(s1, items, translatedParts, index + 1)
             ELSE s1

\* batchRequest.items.forEach(item => setAttribute(..., 'error'))
RECURSIVE markError(_, _)
markError(s, items) ==
    IF items = <<>> THEN s
    ELSE LET s1 == setAttribute(s, Head(items).block, "error")
         IN  IF evaluated(s1) THEN markError(s1, Tail(items)) ELSE s1

\* response.success && response.data.Response?.TargetText
isUsable(response) ==
    /\ response.kind = "resolved"
    /\ response.success
    /\ response.hasTarget
    /\ response.TargetText # <<>>

\* the settling of sendMessage with the delay taken only after a success
onResponse_DelayOnSuccess(s, w, response) ==
    LET batchRequest == s.workers[w].batchRequest
        s1 == IF isUsable(response)
              THEN applyEach(s, batchRequest.items, split(response.TargetText), 1)
              ELSE markError(s, batchRequest.items)
    IN  [s1 EXCEPT !.workers[w] =
                       [pc |-> "delay", batchRequest |-> NoBatch,
                        left |-> IF isUsable(response) THEN rateLimitDelay
                                 ELSE 0],
                   !.sinceDone = 0]

\* the settling of sendMessage with a rejection left uncaught
onResponse_Uncaught(s, w, response) ==
    LET batchRequest == s.workers[w].batchRequest
    IN  IF response.kind = "rejected"
        THEN [s EXCEPT !.workers = removeAt(@, w), !.sinceDone = 0]
        ELSE LET s1 == IF isUsable(response)
                       THEN applyEach(s, batchRequest.items,
                                      split(response.TargetText), 1)
                       ELSE markError(s, batchRequest.items)
             IN  [s1 EXCEPT !.workers[w] =
                                [pc |-> "delay", batchRequest |-> NoBatch,
                                 left |-> rateLimitDelay],
                            !.sinceDone = 0]

\* the settling of sendMessage with a failed batch queued again for a retry
onResponse_Requeue(s, w, response) ==
    LET batchRequest == s.workers[w].batchRequest
        s1 == IF isUsable(response)
              THEN applyEach(s, batchRequest.items, split(response.TargetText), 1)
              ELSE [markError(s, batchRequest.items) EXCEPT
                        !.requestQueue = Append(@, batchRequest)]
    IN  [s1 EXCEPT !.workers[w] = [pc |-> "delay", batchRequest |-> NoBatch,
                                   left |-> rateLimitDelay],
                   !.sinceDone = 0]

\* processQueue from the settling of sendMessage to the rate-limit setTimeout
onResponse(s, w, response) ==
    LET batchRequest == s.workers[w].batchRequest
        s1 == IF isUsable(response)
              THEN applyEach(s, batchRequest.items, split(response.TargetText), 1)
              ELSE markError(s, batchRequest.items)
    IN  [s1 EXCEPT !.workers[w] = [pc |-> "delay", batchRequest |-> NoBatch,
                                   left |-> rateLimitDelay],
                   !.sinceDone = 0]

\* ------------------------------------------------------------ page scanner

blockTags ==
    { "P", "DIV", "LI", "H1", "H2", "H3", "H4", "H5", "H6", "BLOCKQUOTE",
      "PRE", "ADDRESS", "ARTICLE", "ASIDE", "FIGCAPTION", "TD", "TH", "DD",
      "DT" }

technicalTags ==
    { "SCRIPT", "STYLE", "NOSCRIPT", "IFRAME", "SVG", "IMG", "INPUT",
      "TEXTAREA", "CODE", "HEAD", "META", "BUTTON", "LINK", "MAP", "OBJECT",
      "VIDEO", "AUDIO" }

structuralTags == { "HEADER", "FOOTER", "NAV", "ASIDE", "MENU", "DIALOG" }

\* el.closest('[data-context-lingo-container]')
closestContainer(d, el) ==
    \/ el.container
    \/ \E a \in ancestors(d, el.id) : d[indexOf(d, a)].container

\* el.querySelector(blockTags.join(','))
querySelectorBlock(d, el) ==
    LET i == indexOf(d, el.id)
    IN  \E k \in (i + 1)..subtreeEnd(d, i) : d[k].tagName \in blockTags

\* acceptNode without the test of the scan-status attribute
acceptNode_Unchecked(d, el, isMainContentSearch) ==
    IF el.tagName \in technicalTags THEN "FILTER_REJECT"
    ELSE IF el.isContentEditable THEN "FILTER_REJECT"
    ELSE IF closestContainer(d, el) THEN "FILTER_REJECT"
    ELSE IF el.offsetParent = "null" THEN "FILTER_REJECT"
    ELSE IF isMainContentSearch /\ el.tagName \in structuralTags
         THEN "FILTER_REJECT"
    ELSE IF el.tagName \notin blockTags THEN "FILTER_SKIP"
    ELSE IF ~hasChinese(innerText(d, indexOf(d, el.id))) THEN "FILTER_SKIP"
    ELSE IF querySelectorBlock(d, el) THEN "FILTER_SKIP"
    ELSE "FILTER_ACCEPT"

\* acceptNode without the test for blocks below the element
acceptNode_Nested(d, el, isMainContentSearch) ==
    IF el.tagName \in technicalTags THEN "FILTER_REJECT"
    ELSE IF el.isContentEditable THEN "FILTER_REJECT"
    ELSE IF closestContainer(d, el) THEN "FILTER_REJECT"
    ELSE IF el.scanned # "" THEN "FILTER_REJECT"
    ELSE IF el.offsetParent = "null" THEN "FILTER_REJECT"
    ELSE IF isMainContentSearch /\ el.tagName \in structuralTags
         THEN "FILTER_REJECT"
    ELSE IF el.tagName \notin blockTags THEN "FILTER_SKIP"
    ELSE IF ~hasChinese(innerText(d, indexOf(d, el.id))) THEN "FILTER_SKIP"
    ELSE "FILTER_ACCEPT"

\* the walker's acceptNode for element el of document d
acceptNode(d, el, isMainContentSearch) ==
    IF el.tagName \in technicalTags THEN "FILTER_REJECT"
    ELSE IF el.isContentEditable THEN "FILTER_REJECT"
    ELSE IF closestContainer(d, el) THEN "FILTER_REJECT"
    ELSE IF el.scanned # "" THEN "FILTER_REJECT"
    ELSE IF el.offsetParent = "null" THEN "FILTER_REJECT"
    ELSE IF isMainContentSearch /\ el.tagName \in structuralTags
         THEN "FILTER_REJECT"
    ELSE IF el.tagName \notin blockTags THEN "FILTER_SKIP"
    ELSE IF ~hasChinese(innerText(d, indexOf(d, el.id))) THEN "FILTER_SKIP"
    ELSE IF querySelectorBlock(d, el) THEN "FILTER_SKIP"
    ELSE "FILTER_ACCEPT"

\* the id of the walk's root, 0 standing for document.body
\* mainCandidate: document.querySelector('article')
\*     || document.querySelector('main')
\*     || document.querySelector('[role="main"]'),
\* each the first match in document order
rootElement(d, isMainContentSearch) ==
    LET querySelector(P(_)) ==
            IF \E i \in 1..Len(d) : P(d[i])
            THEN << d[CHOOSE i \in 1..Len(d) :
                          P(d[i]) /\ \A j \in 1..(i - 1) : ~P(d[j])] >>
            ELSE <<>>
        article == querySelector(LAMBDA el : el.tagName = "ARTICLE")
        main_ == querySelector(LAMBDA el : el.tagName = "MAIN")
        roleMain == querySelector(LAMBDA el : el.role = "main")
        mainCandidate == IF article # <<>> THEN article
                         ELSE IF main_ # <<>> THEN main_
                         ELSE roleMain
    IN  IF isMainContentSearch /\ mainCandidate # <<>>
        THEN mainCandidate[1].id
        ELSE 0

\* the positions of the elements the walker filters, in document order:
\* those below the root that are below no rejected element. The walk changes
\* an element only after it has filtered it, so the rejected elements above
\* an element are those of the document d at the start of the walk.
filtered(d, isMainContentSearch) ==
    LET root == rootElement(d, isMainContentSearch)
        below(i) == root = 0 \/ root \in ancestors(d, d[i].id)
        between(i) ==
            IF root = 0 THEN ancestors(d, d[i].id)
            ELSE ancestors(d, d[i].id) \ ({ root } \cup ancestors(d, root))
    IN  SelectSeq([i \in 1..Len(d) |-> i],
            LAMBDA i : /\ below(i)
                       /\ \A a \in between(i) :
                              acceptNode(d, d[indexOf(d, a)],
                                         isMainContentSearch)
                                  # "FILTER_REJECT")

\* one step of the walk: scheduler.add(block) when the walker accepts the
\* element at position i
visit(s, i) ==
    IF acceptNode(s.dom, s.dom[i], ~s.currentAutoTranslate.translateWholePage)
           = "FILTER_ACCEPT"
    THEN add([s EXCEPT !.accepted = @ \cup { s.dom[i].id }], s.dom[i].id)
    ELSE s

\* while (walker.nextNode()) scheduler.add(block), over the elements at
\* nodes[lo..hi]; the range is halved to keep the evaluation shallow
RECURSIVE walkRange(_, _, _, _)
walkRange(s, nodes, lo, hi) ==
    IF lo > hi THEN s
    ELSE IF lo = hi THEN visit(s, nodes[lo])
    ELSE LET mid == (lo + hi) \div 2
             s1 == walkRange(s, nodes, lo, mid)
         IN  IF evaluated(s1) THEN walkRange(s1, nodes, mid + 1, hi) ELSE s1

scanAndTranslatePage(s) ==
    LET nodes == filtered(s.dom, ~s.currentAutoTranslate.translateWholePage)
    IN  walkRange(s, nodes, 1, Len(nodes))

\* ------------------------------------------------- main and the observer

\* setTimeout(scanAndTranslatePage, 1000)
initialScanDelay == 1000

\* debounceTimer = setTimeout(scanAndTranslatePage, 2000)
observerDelay == 2000

\* clearTimeout(handle) on these pending timeouts
clearTimeout(timeouts, handle) ==
    IF handle = 0 THEN timeouts ELSE removeAt(timeouts, handle)

\* the childList records of the change of the document from d0 to d1: one
\* for each new element, under its parent, and one for each element whose
\* child nodes were replaced
mutationRecords(d0, d1) ==
    LET old == { d0[i].id : i \in 1..Len(d0) }
    IN  { [target |-> d1[i].parentElement, addedNodes |-> 1] :
              i \in { k \in 1..Len(d1) : d1[k].id \notin old } }
        \cup
        { [target |-> d1[i].id, addedNodes |-> Len(d1[i].childNodes)] :
              i \in { k \in 1..Len(d1) :
                         /\ d1[k].id \in old
                         /\ d1[k].childNodes
                                # d0[indexOf(d0, d1[k].id)].childNodes } }

\* the observer's callback without the clearTimeout
mutationCallback_Uncleared(s, mutations) ==
    IF \E m \in mutations : m.addedNodes > 0
    THEN [s EXCEPT !.observerTimeouts = Append(@, observerDelay),
                   !.debounceTimer = Len(s.observerTimeouts) + 1,
                   !.sinceMutation = 0]
    ELSE s

\* new MutationObserver((mutations) => { ... })
mutationCallback(s, mutations) ==
    IF \E m \in mutations : m.addedNodes > 0
    THEN LET pending == clearTimeout(s.observerTimeouts, s.debounceTimer)
         IN  [s EXCEPT !.observerTimeouts = Append(pending, observerDelay),
                       !.debounceTimer = Len(pending) + 1,
                       !.sinceMutation = 0]
    ELSE s

\* observer.observe(document.body, { childList: true, subtree: true }): the
\* state s1 a handler leaves, after the callback for what it did to the
\* document of s0
observe(s0, s1) ==
    IF s1.observing /\ mutationRecords(s0.dom, s1.dom) # {}
    THEN mutationCallback(s1, mutationRecords(s0.dom, s1.dom))
    ELSE s1

\* main from the config check on: what it has registered when it returns.
\* enabled is currentAutoTranslate.enabled as loaded.
main(isBlacklisted, isWhitelisted, enabled) ==
    IF isBlacklisted /\ ~isWhitelisted
    THEN [listening |-> FALSE, observing |-> FALSE, initialScanTimeout |-> -1]
    ELSE IF isWhitelisted \/ enabled
         THEN [listening |-> TRUE, observing |-> TRUE,
               initialScanTimeout |-> initialScanDelay]
         ELSE [listening |-> TRUE, observing |-> FALSE,
               initialScanTimeout |-> -1]

\* ------------------------------------------------------------- environment

\* the texts of the paragraphs a page adds
PageTexts ==
    { <<zh, chi>>, <<SP, zh, zh, NL>>, <<SP, zh, SP>> }

\* the engine lists the options page can store
EngineLists ==
    { << [id |-> "tencent", isEnabled |-> FALSE],
         [id |-> "custom-mock", isEnabled |-> TRUE] >>,
      << [id |-> "tencent", isEnabled |-> FALSE] >> }

AutoTranslateConfigs ==
    { [bilingualMode |-> FALSE, matchInflections |-> FALSE,
       translateWholePage |-> FALSE],
      [bilingualMode |-> TRUE, matchInflections |-> TRUE,
       translateWholePage |-> TRUE] }

\* what sendMessage can settle with when no translated text comes back
Rejected ==
    [kind |-> "rejected", success |-> FALSE, hasTarget |-> FALSE,
     TargetText |-> <<>>]
Unsuccessful ==
    [kind |-> "resolved", success |-> FALSE, hasTarget |-> FALSE,
     TargetText |-> <<>>]
NoTargetText ==
    [kind |-> "resolved", success |-> TRUE, hasTarget |-> FALSE,
     TargetText |-> <<>>]
EmptyTargetText ==
    [kind |-> "resolved", success |-> TRUE, hasTarget |-> TRUE,
     TargetText |-> <<>>]

Translated(text) ==
    [kind |-> "resolved", success |-> TRUE, hasTarget |-> TRUE,
     TargetText |-> text]

\* the i-th part of an engine's answer: the entry's spelling capitalised,
\* then an inflection of it, then a word that is no entry, and so on
ReplyPart(i) ==
    IF i % 3 = 1 THEN <<"E", "a", "t">>
    ELSE IF i % 3 = 2 THEN <<"a", "t", "e">>
    ELSE <<"d">>

\* the separator an engine leaves between the parts: the delimiter as sent,
\* or without its line breaks and with a space
ReplySeparator(k) == IF k % 2 = 1 THEN delimiter ELSE <<BAR, BAR, BAR, SP>>

\* the answers an engine may give to a batch of n blocks: one part too few,
\* one part per block, one part too many
Replies(n) ==
    { Translated(join([i \in 1..k |-> ReplyPart(i)], ReplySeparator(k))) :
          k \in (n - 1)..(n + 1) \ {0} }

Responses(n) ==
    { Rejected, Unsuccessful, NoTargetText, EmptyTargetText } \cup Replies(n)

\* ----------------------------------------------------------------- actions

\* ---------------------------------------------------------- ContentOverlay

\* the ids of the entries that are annotated on the page
EntryIds == { "e1", "e2" }

\* the variables of the translation pipeline and of main
pipeline ==
    << dom, buffer, requestQueue, isProcessingQueue, timer, flushTimeout,
       workers, currentEngines, currentAutoTranslate, pushed, sent, dropped,
       applied, sinceDone, sendGap, appends, accepted, observing,
       observerTimeouts, debounceTimer, sinceMutation, listening,
       initialScanTimeout, unanswered >>

\* the state the overlay's handlers read and write, as one record
Overlay ==
    [activeBubbles |-> activeBubbles, showTimer |-> showTimer,
     showTimeouts |-> showTimeouts, hideTimers |-> hideTimers,
     hideTimeouts |-> hideTimeouts]

Render(o) ==
    /\ activeBubbles' = o.activeBubbles
    /\ showTimer' = o.showTimer
    /\ showTimeouts' = o.showTimeouts
    /\ hideTimers' = o.hideTimers
    /\ hideTimeouts' = o.hideTimeouts

\* the handle setTimeout returns: one that names none of these timeouts
setTimeout(timeouts) ==
    CHOOSE h \in 1..(Cardinality(timeouts) + 1) :
        \A t \in timeouts : t.handle # h

\* these timeouts after clearTimeout(handle)
cleared(timeouts, handle) == { t \in timeouts : t.handle # handle }

\* the ids of these bubbles or entries
ids(list) == { list[k].id : k \in 1..Len(list) }

\* currentEntries.find(w => w.id === id), as a sequence of at most one entry
find(list, id) == SelectSeq(list, LAMBDA w : w.id = id)

checkModifier(e, mod) ==
    IF mod = "None" THEN TRUE
    ELSE IF mod = "Alt" THEN e.altKey
    ELSE IF mod = "Ctrl" THEN e.ctrlKey \/ e.metaKey
    ELSE IF mod = "Shift" THEN e.shiftKey
    ELSE IF mod = "Meta" THEN e.metaKey
    ELSE TRUE

\* addBubble adding to the list in single mode too
addBubble_Append(o, config, entry) ==
    LET o1 == IF o.hideTimers[entry.id] # 0
              THEN [o EXCEPT !.hideTimeouts = cleared(@, o.hideTimers[entry.id]),
                             !.hideTimers[entry.id] = 0]
              ELSE o
        prev == o1.activeBubbles
        exists == entry.id \in ids(prev)
        bubble == [id |-> entry.id, entry |-> entry]
    IN  [o1 EXCEPT !.activeBubbles =
                       IF exists THEN prev ELSE Append(prev, bubble)]

addBubble(o, config, entry) ==
    LET o1 == IF o.hideTimers[entry.id] # 0
              THEN [o EXCEPT !.hideTimeouts = cleared(@, o.hideTimers[entry.id]),
                             !.hideTimers[entry.id] = 0]
              ELSE o
        prev == o1.activeBubbles
        exists == entry.id \in ids(prev)
        bubble == [id |-> entry.id, entry |-> entry]
    IN  [o1 EXCEPT !.activeBubbles =
                       IF ~config.allowMultipleBubbles
                       THEN IF Len(prev) = 1 /\ exists THEN prev
                            ELSE << bubble >>
                       ELSE IF exists THEN prev
                            ELSE Append(prev, bubble)]

scheduleRemoveBubble(o, id) ==
    LET pending == IF o.hideTimers[id] # 0
                   THEN cleared(o.hideTimeouts, o.hideTimers[id])
                   ELSE o.hideTimeouts
        timeoutId == setTimeout(pending)
    IN  [o EXCEPT !.hideTimeouts =
                      pending \cup { [handle |-> timeoutId, id |-> id] },
                  !.hideTimers[id] = timeoutId]

\* handleMouseOver for an event e whose target lies in the annotation of id
handleMouseOver(id, e) ==
    LET o == Overlay
        entry == find(entriesRef, id)
        o1 == IF o.hideTimers[id] # 0
              THEN [o EXCEPT !.hideTimeouts = cleared(@, o.hideTimers[id]),
                             !.hideTimers[id] = 0]
              ELSE o
        pending == IF o1.showTimer # 0
                   THEN cleared(o1.showTimeouts, o1.showTimer)
                   ELSE o1.showTimeouts
        timeoutId == setTimeout(pending)
    IN  /\ Render(IF entry = <<>> THEN o
                  ELSE IF /\ interactionConfig.mainTrigger.action = "Hover"
                          /\ checkModifier(e, interactionConfig.mainTrigger.modifier)
                       THEN [o1 EXCEPT !.showTimeouts =
                                           pending \cup { [handle |-> timeoutId,
                                                           entry |-> entry[1]] },
                                       !.showTimer = timeoutId]
                       ELSE o1)
        /\ pointer' = [over |-> "word", id |-> id]
        /\ UNCHANGED << interactionConfig, entriesRef, storedEntries,
                        promotions, promoted, pipeline, speech >>

\* handleMouseOut for an event whose target lies in the annotation of id
handleMouseOut(id) ==
    /\ Render(scheduleRemoveBubble(
           IF showTimer # 0
           THEN [Overlay EXCEPT !.showTimeouts = cleared(@, showTimer),
                                !.showTimer = 0]
           ELSE Overlay,
           id))
    /\ pointer' = [over |-> "none", id |-> ""]
    /\ UNCHANGED << interactionConfig, entriesRef, storedEntries, promotions,
                    promoted, pipeline, speech >>

\* handleTriggerEvent for a click or dblclick e on the annotation of id
handleTriggerEvent(id, actionType, e) ==
    LET o == Overlay
        entry == find(entriesRef, id)
        o1 == IF o.showTimer # 0
              THEN [o EXCEPT !.showTimeouts = cleared(@, o.showTimer),
                             !.showTimer = -1]
              ELSE o
    IN  /\ Render(IF interactionConfig.mainTrigger.action # actionType THEN o
                  ELSE IF ~checkModifier(e, interactionConfig.mainTrigger.modifier)
                       THEN o
                  ELSE IF entry = <<>> THEN o
                  ELSE addBubble(o1, interactionConfig, entry[1]))
        /\ UNCHANGED << interactionConfig, entriesRef, pointer, storedEntries,
                        promotions, promoted, pipeline, speech >>

\* handleBubbleMouseEnter: the pointer enters the bubble of id
handleBubbleMouseEnter(id) ==
    /\ id \in ids(activeBubbles)
    /\ Render(IF hideTimers[id] # 0
              THEN [Overlay EXCEPT !.hideTimeouts = cleared(@, hideTimers[id]),
                                   !.hideTimers[id] = 0]
              ELSE Overlay)
    /\ pointer' = [over |-> "bubble", id |-> id]
    /\ UNCHANGED << interactionConfig, entriesRef, storedEntries, promotions,
                    promoted, pipeline, speech >>

\* handleBubbleMouseLeave: the pointer leaves the bubble of id
handleBubbleMouseLeave(id) ==
    /\ id \in ids(activeBubbles)
    /\ Render(scheduleRemoveBubble(Overlay, id))
    /\ pointer' = [over |-> "none", id |-> ""]
    /\ UNCHANGED << interactionConfig, entriesRef, storedEntries, promotions,
                    promoted, pipeline, speech >>

\* the effect on [entries]: every bubble gets the entry of its id as it is now
refreshed(bubbles, newEntries) ==
    [k \in 1..Len(bubbles) |->
        IF find(newEntries, bubbles[k].id) # <<>>
        THEN [bubbles[k] EXCEPT !.entry = find(newEntries, bubbles[k].id)[1]]
        ELSE bubbles[k]]

\* a show timeout fires: addBubble with the entry it was set for
ShowFire(t) ==
    /\ t \in showTimeouts
    /\ Render(addBubble([Overlay EXCEPT !.showTimeouts = @ \ { t },
                                        !.showTimer = IF @ = t.handle THEN -1
                                                      ELSE @],
                        interactionConfig, t.entry))
    /\ UNCHANGED << interactionConfig, entriesRef, pointer, storedEntries,
                    promotions, promoted, pipeline, speech >>

\* a hide timeout fires
HideFire(t) ==
    /\ t \in hideTimeouts
    /\ Render([Overlay EXCEPT
                   !.hideTimeouts = @ \ { t },
                   !.activeBubbles = SelectSeq(@, LAMBDA b : b.id # t.id),
                   !.hideTimers[t.id] = 0])
    /\ UNCHANGED << interactionConfig, entriesRef, pointer, storedEntries,
                    promotions, promoted, pipeline, speech >>

\* interactionConfigStorage.watch(v => v && setInteractionConfig(v))
InteractionConfigChanged(v) ==
    /\ v # interactionConfig
    /\ interactionConfig' = v
    /\ UNCHANGED << activeBubbles, showTimer, showTimeouts, hideTimers,
                    hideTimeouts, entriesRef, pointer, storedEntries,
                    promotions, promoted, pipeline, speech >>

\* the vocabulary is edited elsewhere: entriesStorage.watch(v => v &&
\* setEntries(v)) and the effect on [entries]
EntriesChanged(v) ==
    /\ v # entriesRef
    /\ storedEntries' = v
    /\ entriesRef' = v
    /\ activeBubbles' = refreshed(activeBubbles, v)
    /\ UNCHANGED << showTimer, showTimeouts, hideTimers, hideTimeouts,
                    interactionConfig, pointer, promotions, promoted,
                    pipeline, speech >>

\* handleAddWordToLearning(id), from the button of the bubble of id, up to the
\* value of getValue
PromoteRead(id) ==
    /\ id \in ids(activeBubbles)
    /\ id \notin promoted
    /\ \A c \in promotions : c.id # id
    /\ promotions' = promotions \cup { [id |-> id, pc |-> "map",
                                         allEntries |-> storedEntries] }
    /\ UNCHANGED << activeBubbles, showTimer, showTimeouts, hideTimers,
                    hideTimeouts, interactionConfig, entriesRef, pointer,
                    storedEntries, promoted, pipeline, speech >>

\* handleAddWordToLearning from the map to the setValue; the store's watcher
\* passes the new value to setEntries
PromoteWrite(c) ==
    /\ c \in promotions
    /\ c.pc = "map"
    /\ LET newEntries ==
               [k \in 1..Len(c.allEntries) |->
                   IF c.allEntries[k].id = c.id
                   THEN [c.allEntries[k] EXCEPT !.category = "LearningWord"]
                   ELSE c.allEntries[k]]
       IN  /\ storedEntries' = newEntries
           /\ entriesRef' = newEntries
           /\ activeBubbles' = refreshed(activeBubbles, newEntries)
           /\ promotions' = (promotions \ { c })
                                \cup { [id |-> c.id, pc |-> "set",
                                        allEntries |-> newEntries] }
    /\ UNCHANGED << showTimer, showTimeouts, hideTimers, hideTimeouts,
                    interactionConfig, pointer, promoted, pipeline,
                    speech >>

\* handleAddWordToLearning after the setValue: setEntries(newEntries)
PromoteSet(c) ==
    /\ c \in promotions
    /\ c.pc = "set"
    /\ entriesRef' = c.allEntries
    /\ activeBubbles' = refreshed(activeBubbles, c.allEntries)
    /\ promotions' = promotions \ { c }
    /\ promoted' = promoted \cup { c.id }
    /\ UNCHANGED << showTimer, showTimeouts, hideTimers, hideTimeouts,
                    interactionConfig, pointer, storedEntries, pipeline,
                    speech >>

\* the events of the overlay: the mouse events carry the Alt key or no
\* modifier; the options page stores single or multi mode with the hover
\* trigger or the Alt-click trigger; the vocabulary is stored with both
\* entries, with e1 deleted or with e1 promoted
NextOverlay ==
    \/ \E id \in EntryIds :
           \E e \in [altKey : BOOLEAN, ctrlKey : { FALSE }, metaKey : { FALSE },
                  shiftKey : { FALSE }] :
               handleMouseOver(id, e)
    \/ \E id \in EntryIds : handleMouseOut(id)
    \/ \E id \in EntryIds : \E actionType \in { "Click", "DoubleClick" } :
           \E e \in [altKey : BOOLEAN, ctrlKey : { FALSE }, metaKey : { FALSE },
                  shiftKey : { FALSE }] :
               handleTriggerEvent(id, actionType, e)
    \/ \E t \in showTimeouts : ShowFire(t)
    \/ \E t \in hideTimeouts : HideFire(t)
    \/ \E id \in EntryIds : handleBubbleMouseEnter(id)
    \/ \E id \in EntryIds : handleBubbleMouseLeave(id)
    \/ \E v \in [allowMultipleBubbles : BOOLEAN,
                  mainTrigger : { [action |-> "Hover", modifier |-> "None"],
                                  [action |-> "Click", modifier |-> "Alt"] }] :
           InteractionConfigChanged(v)
    \/ \E v \in { << [id |-> "e1", category |-> "WantToLearnWord"],
                      [id |-> "e2", category |-> "WantToLearnWord"] >>,
                   << [id |-> "e2", category |-> "WantToLearnWord"] >>,
                   << [id |-> "e1", category |-> "LearningWord"],
                      [id |-> "e2", category |-> "WantToLearnWord"] >> } :
           EntriesChanged(v)

\* the script's state when main returns with these registrations
Loaded(m) ==
    /\ listening = m.listening
    /\ observing = m.observing
    /\ initialScanTimeout = m.initialScanTimeout
    /\ observerTimeouts = <<>>
    /\ debounceTimer = 0
    /\ sinceMutation = -1
    /\ unanswered = FALSE
    /\ activeBubbles = <<>>
    /\ showTimer = 0
    /\ showTimeouts = {}
    /\ hideTimers = [id \in EntryIds |-> 0]
    /\ hideTimeouts = {}
    /\ interactionConfig = [allowMultipleBubbles |-> FALSE,
                            mainTrigger |-> [action |-> "Hover",
                                             modifier |-> "None"]]
    /\ entriesRef = << [id |-> "e1", category |-> "WantToLearnWord"],
                       [id |-> "e2", category |-> "WantToLearnWord"] >>
    /\ pointer = [over |-> "none", id |-> ""]
    /\ storedEntries = entriesRef
    /\ promotions = {}
    /\ promoted = {}
    /\ voices = FALSE
    /\ isLoaded = FALSE
    /\ speechQueue = <<>>
    /\ waiting = <<>>
    /\ lastCall = [call |-> 0, text |-> "", repeat |-> 0]

\* a page without auto-translation: the scans are triggered by hand
Init ==
    /\ dom = <<>>
    /\ buffer = <<>>
    /\ requestQueue = <<>>
    /\ isProcessingQueue = FALSE
    /\ timer = "null"
    /\ flushTimeout = -1
    /\ workers = <<>>
    /\ currentEngines \in EngineLists
    /\ currentAutoTranslate \in AutoTranslateConfigs
    /\ pushed = <<>>
    /\ sent = <<>>
    /\ dropped = <<>>
    /\ applied = <<>>
    /\ sinceDone = -1
    /\ sendGap = -1
    /\ appends = 0
    /\ accepted = {}
    /\ Loaded(main(FALSE, FALSE, FALSE))

\* the page adds a paragraph at the end of the document
PageAppend(text) ==
    /\ appends < MaxAppends
    /\ appends' = appends + 1
    /\ Commit(observe(Cur,
           [Cur EXCEPT !.dom = Append(@, createElement(Len(dom) + 1, "P", 0,
                                                       text, "")),
                       !.applied = Append(@, <<>>)]))
    /\ UNCHANGED << initialScanTimeout, outside >>

\* a TRIGGER_TRANSLATION message reaches the onMessage listener
Scan ==
    /\ listening
    /\ Commit(scanAndTranslatePage(Cur))
    /\ UNCHANGED << appends, initialScanTimeout, outside >>

\* the debounce timeout fires: () => this.flushBufferToQueue()
TimerFire ==
    /\ flushTimeout = 0
    /\ Commit(flushBufferToQueue([Cur EXCEPT !.flushTimeout = -1]))
    /\ UNCHANGED << appends, initialScanTimeout, outside >>

\* sendMessage settles for worker w
Complete(w, response) ==
    /\ workers[w].pc = "await"
    /\ Commit(observe(Cur, onResponse(Cur, w, response)))
    /\ UNCHANGED << appends, initialScanTimeout, outside >>

\* the rate-limit timeout of worker w fires and its loop goes round
DelayDone(w) ==
    /\ workers[w].pc = "delay"
    /\ workers[w].left = 0
    /\ Commit(processQueueLoop(Cur, w))
    /\ UNCHANGED << appends, initialScanTimeout, outside >>

\* ms left on a timeout after d more ms
elapse(left, d) == IF left < 0 THEN left ELSE IF left > d THEN left - d ELSE 0

\* the ms left on the pending timeouts that are not due yet
pendingTimeouts ==
    { n \in { flushTimeout, initialScanTimeout } \cup
             { workers[w].left : w \in { v \in 1..Len(workers) :
                                          workers[v].pc = "delay" } } \cup
             { observerTimeouts[k] : k \in 1..Len(observerTimeouts) } : n > 0 }

\* the state of the timeouts and of the clocks after d more ms
passed(d) ==
    /\ flushTimeout' = elapse(flushTimeout, d)
    /\ initialScanTimeout' = elapse(initialScanTimeout, d)
    /\ observerTimeouts' = [k \in 1..Len(observerTimeouts) |->
                               elapse(observerTimeouts[k], d)]
    /\ workers' = [w \in 1..Len(workers) |->
                      IF workers[w].pc = "delay"
                      THEN [workers[w] EXCEPT !.left = elapse(@, d)]
                      ELSE workers[w]]
    /\ sinceDone' = IF sinceDone < 0 THEN sinceDone
                    ELSE IF sinceDone + d > rateLimitDelay
                         THEN rateLimitDelay
                         ELSE sinceDone + d
    /\ sinceMutation' = IF sinceMutation < 0 THEN sinceMutation
                        ELSE IF sinceMutation + d > observerDelay
                             THEN observerDelay
                             ELSE sinceMutation + d

\* time passes until the next pending timeout is due
Tick ==
    /\ pendingTimeouts # {}
    /\ passed(CHOOSE n \in pendingTimeouts : \A m \in pendingTimeouts : n <= m)
    /\ UNCHANGED << dom, buffer, requestQueue, isProcessingQueue, timer,
                    currentEngines, currentAutoTranslate, pushed, sent,
                    dropped, applied, sendGap, appends, accepted, observing,
                    debounceTimer, outside >>

\* enginesStorage.watch((newVal) => { if (newVal) currentEngines = newVal })
EnginesChanged(newVal) ==
    /\ newVal # currentEngines
    /\ currentEngines' = newVal
    /\ UNCHANGED << dom, buffer, requestQueue, isProcessingQueue, timer,
                    flushTimeout, workers, currentAutoTranslate, pushed, sent,
                    dropped, applied, sinceDone, sendGap,
                    appends, accepted, observing, observerTimeouts,
                    debounceTimer, sinceMutation, initialScanTimeout,
                    outside >>

\* autoTranslateConfigStorage.watch((newVal) => { ... })
AutoTranslateChanged(newVal) ==
    /\ newVal # currentAutoTranslate
    /\ currentAutoTranslate' = newVal
    /\ UNCHANGED << dom, buffer, requestQueue, isProcessingQueue, timer,
                    flushTimeout, workers, currentEngines, pushed, sent,
                    dropped, applied, sinceDone, sendGap,
                    appends, accepted, observing, observerTimeouts,
                    debounceTimer, sinceMutation, initialScanTimeout,
                    outside >>

Next ==
    \/ \E text \in PageTexts : PageAppend(text)
    \/ Scan
    \/ TimerFire
    \/ \E w \in 1..Len(workers) :
           \E response \in Responses(Len(workers[w].batchRequest.items)) :
               Complete(w, response)
    \/ \E w \in 1..Len(workers) : DelayDone(w)
    \/ Tick
    \/ \E newVal \in EngineLists : EnginesChanged(newVal)
    \/ \E newVal \in AutoTranslateConfigs : AutoTranslateChanged(newVal)

Spec == Init /\ [][Next]_vars

\* ------------------------------------------ large pages (batch size limits)

\* a paragraph of n ideographs
LongText(n) == [i \in 1..n |-> zh]

\* the lengths of the long paragraphs a page adds
LongLengths == { maxCharCount \div 2 }

\* the numbers of short paragraphs a page adds at once
BurstSizes == { maxBatchSize - 1 }

\* the document d with n more paragraphs of this text at its end
appendAll(d, text, n) ==
    d \o [i \in 1..n |-> createElement(Len(d) + i, "P", 0, text, "")]

\* the page adds n short paragraphs at once
PageAppendBurst(n) ==
    /\ appends < MaxAppends
    /\ appends' = appends + 1
    /\ Commit(observe(Cur,
           [Cur EXCEPT !.dom = appendAll(@, <<zh, chi>>, n),
                       !.applied = @ \o [i \in 1..n |-> <<>>]]))
    /\ UNCHANGED << initialScanTimeout, outside >>

\* the answers considered for the requests of a large page
SizingResponses(n) ==
    { Unsuccessful,
      Translated(join([i \in 1..n |-> ReplyPart(i)], delimiter)) }

\* a page that adds many short paragraphs at once
NextBurst ==
    \/ \E n \in BurstSizes : PageAppendBurst(n)
    \/ PageAppend(<<zh, chi>>)
    \/ Scan
    \/ TimerFire
    \/ \E w \in 1..Len(workers) :
           \E response \in SizingResponses(Len(workers[w].batchRequest.items)) :
               Complete(w, response)
    \/ \E w \in 1..Len(workers) : DelayDone(w)
    \/ Tick

\* a page that adds long paragraphs
NextLong ==
    \/ \E n \in LongLengths : PageAppend(LongText(n))
    \/ PageAppend(<<zh, chi>>)
    \/ Scan
    \/ TimerFire
    \/ \E w \in 1..Len(workers) :
           \E response \in SizingResponses(Len(workers[w].batchRequest.items)) :
               Complete(w, response)
    \/ \E w \in 1..Len(workers) : DelayDone(w)
    \/ Tick

\* a large page is watched with an engine enabled and bilingual mode off
InitSizing ==
    /\ Init
    /\ findEnabled(currentEngines) # <<>>
    /\ currentAutoTranslate = [bilingualMode |-> FALSE, matchInflections |-> FALSE,
                               translateWholePage |-> FALSE]

SpecBurst == InitSizing /\ [][NextBurst]_vars

SpecLong == InitSizing /\ [][NextLong]_vars

\* ------------------------------------------------- pages with bars in text

\* paragraphs whose text holds three vertical bars, and one without
BarTexts ==
    { <<zh, BAR, BAR, BAR, chi>>, <<zh, SP, BAR, BAR, BAR, NL, zh>>, <<zh, chi>> }

NextBars ==
    \/ \E text \in BarTexts : PageAppend(text)
    \/ Scan
    \/ TimerFire
    \/ \E w \in 1..Len(workers) :
           \E response \in SizingResponses(Len(workers[w].batchRequest.items)) :
               Complete(w, response)
    \/ \E w \in 1..Len(workers) : DelayDone(w)
    \/ Tick

SpecBars == InitSizing /\ [][NextBars]_vars

\* ------------------------------------------- scans inside the flush window

\* the grain of time for scans that fall between two timeouts
TimeStep == debounceDelay \div 3

\* time passes by one grain, short of the next pending timeout
TickPart ==
    /\ pendingTimeouts # {}
    /\ \A m \in pendingTimeouts : TimeStep < m
    /\ passed(TimeStep)
    /\ UNCHANGED << dom, buffer, requestQueue, isProcessingQueue, timer,
                    currentEngines, currentAutoTranslate, pushed, sent,
                    dropped, applied, sendGap, appends, accepted, observing,
                    debounceTimer, outside >>

NextWindow ==
    \/ PageAppend(<<zh, chi>>)
    \/ Scan
    \/ TimerFire
    \/ \E w \in 1..Len(workers) :
           \E response \in SizingResponses(Len(workers[w].batchRequest.items)) :
               Complete(w, response)
    \/ \E w \in 1..Len(workers) : DelayDone(w)
    \/ Tick
    \/ TickPart

SpecWindow == InitSizing /\ [][NextWindow]_vars

\* ------------------------------------------------ annotation of one block

\* the longest text of a block that is annotated on its own
MaxNodeLen == 4

\* the characters of these texts
NodeChars == { zh, chi, SP }

NodeTexts == UNION { [1..n -> NodeChars] : n \in 1..MaxNodeLen }

\* WordEntry values whose translations start alike, contain one another or
\* overlap
annotationEntries ==
    { [id |-> "cat", text |-> <<"c", "a", "t">>, translation |-> <<zh>>],
      [id |-> "category", text |-> <<"c", "a", "t", "s">>,
       translation |-> <<zh, chi>>],
      [id |-> "lunch", text |-> <<"e", "a", "t", "s">>,
       translation |-> <<chi, zh, zh>>] }

\* the { text, entry } pairs handed to processTextNode
Candidates == { [text |-> e.translation, entry |-> e] : e \in annotationEntries }

\* the lists of distinct candidates, in every order
MatchLists ==
    { ms \in UNION { [1..n -> Candidates] : n \in 1..Cardinality(Candidates) } :
        \A i, j \in 1..Len(ms) : i # j => ms[i] # ms[j] }

\* what a block with this text can hold when it is annotated: the text alone,
\* the text after an annotation the page copied in, the text inside a
\* wrapper, the text inside another inline element
BlockContents(text) ==
    { << createTextNode(text) >>,
      << createSpan(CHOOSE c \in Candidates : c.entry.id = "cat"),
         createTextNode(text) >>,
      << createInline("context-lingo-wrapper", << createTextNode(text) >>) >>,
      << createInline("", << createTextNode(text) >>) >> }

\* the text of these nodes, an annotation standing for the text it replaced
RECURSIVE textOf(_)
textOf(childNodes) ==
    IF childNodes = <<>> THEN <<>>
    ELSE LET node == Head(childNodes)
         IN  (IF node.kind = "text" THEN node.nodeValue
              ELSE IF node.className = "context-lingo-word" THEN node.original
              ELSE textOf(node.childNodes))
                 \o textOf(Tail(childNodes))

\* one pending block is in the document
InitAnnotate ==
    /\ \E text \in NodeTexts : \E childNodes \in BlockContents(text) :
           dom = << [createElement(1, "P", 0, textOf(childNodes), "") EXCEPT
                         !.scanned = "pending", !.childNodes = childNodes] >>
    /\ buffer = <<>>
    /\ requestQueue = <<>>
    /\ isProcessingQueue = FALSE
    /\ timer = "null"
    /\ flushTimeout = -1
    /\ workers = <<>>
    /\ currentEngines \in EngineLists
    /\ currentAutoTranslate = [bilingualMode |-> FALSE, matchInflections |-> FALSE,
                               translateWholePage |-> FALSE]
    /\ pushed = <<>>
    /\ sent = <<>>
    /\ dropped = <<>>
    /\ applied = << <<>> >>
    /\ sinceDone = -1
    /\ sendGap = -1
    /\ appends = 0
    /\ accepted = {}
    /\ Loaded(main(FALSE, FALSE, FALSE))

\* applyTranslation's last step for the block: the status 'true' and the
\* replacement of its text nodes for these candidates
AnnotateBlock(validMatches) ==
    /\ dom[1].scanned = "pending"
    /\ Commit(observe(Cur,
           [Cur EXCEPT !.dom[1].scanned = "true",
                       !.dom[1].childNodes = replaceTextNodes(@, validMatches)]))
    /\ UNCHANGED << appends, initialScanTimeout, outside >>

NextAnnotate == \E validMatches \in MatchLists : AnnotateBlock(validMatches)

SpecAnnotate == InitAnnotate /\ [][NextAnnotate]_vars

\* ------------------------------------------------ the page from its load

\* the most elements a document has when an answer is still taken
MaxElements == 5

\* the background script's TRANSLATE_TEXT handler: what it answers for this
\* engine and text; the answer of the tencent service is any answer
translateText(engine, text) ==
    IF engine.id = "tencent" THEN Responses(Len(split(text))) \ { Rejected }
    ELSE IF engine.id = "custom-mock"
         THEN { Translated(<< "S", "i", "m", "u", "l", "a", "t", "e", "d", SP,
                              "t", "r", "a", "n", "s", "l", "a", "t", "i", "o",
                              "n", SP, "f", "o", "r", ":", SP >> \o text) }
    ELSE { Unsuccessful }

\* the timeout of the initial scan fires
InitialScan ==
    /\ initialScanTimeout = 0
    /\ initialScanTimeout' = -1
    /\ Commit(scanAndTranslatePage(Cur))
    /\ UNCHANGED << appends, outside >>

\* the observer's timeout at place k fires
ObserverRescan(k) ==
    /\ observerTimeouts[k] = 0
    /\ Commit(scanAndTranslatePage(
           [Cur EXCEPT !.observerTimeouts = removeAt(@, k),
                       !.debounceTimer = IF @ = k THEN 0
                                         ELSE IF @ > k THEN @ - 1 ELSE @,
                       !.sinceMutation = -1]))
    /\ UNCHANGED << appends, initialScanTimeout, outside >>

\* a TRIGGER_TRANSLATION message arrives and no listener is registered
TriggerUnheard ==
    /\ ~listening
    /\ unanswered' = TRUE
    /\ UNCHANGED << dom, buffer, requestQueue, isProcessingQueue, timer,
                    flushTimeout, workers, currentEngines,
                    currentAutoTranslate, pushed, sent, dropped, applied,
                    sinceDone, sendGap, appends, accepted, observing,
                    observerTimeouts, debounceTimer, sinceMutation,
                    listening, initialScanTimeout, overlay, speech >>

\* the script has run on a page of any host, with the mock engine enabled
InitPage ==
    /\ dom = <<>>
    /\ buffer = <<>>
    /\ requestQueue = <<>>
    /\ isProcessingQueue = FALSE
    /\ timer = "null"
    /\ flushTimeout = -1
    /\ workers = <<>>
    /\ currentEngines \in EngineLists
    /\ findEnabled(currentEngines) # <<>>
    /\ currentAutoTranslate \in AutoTranslateConfigs
    /\ pushed = <<>>
    /\ sent = <<>>
    /\ dropped = <<>>
    /\ applied = <<>>
    /\ sinceDone = -1
    /\ sendGap = -1
    /\ appends = 0
    /\ accepted = {}
    /\ \E isBlacklisted, isWhitelisted, enabled \in BOOLEAN :
           Loaded(main(isBlacklisted, isWhitelisted, enabled))

NextPage ==
    \/ PageAppend(<<zh, chi>>)
    \/ Scan
    \/ TriggerUnheard
    \/ InitialScan
    \/ \E k \in 1..Len(observerTimeouts) : ObserverRescan(k)
    \/ TimerFire
    \/ \E w \in 1..Len(workers) :
           /\ Len(dom) < MaxElements
           /\ \E response \in translateText(findEnabled(currentEngines)[1],
                                            workers[w].batchRequest.combinedText) :
                  Complete(w, response)
    \/ \E w \in 1..Len(workers) : DelayDone(w)
    \/ Tick

SpecPage == InitPage /\ [][NextPage]_vars

\* ------------------------------------------- the pipeline left to finish

\* a large page with an engine that stays enabled: every timeout that is due
\* fires, time goes on while a timeout is pending,
\* and every request settles
SpecLive ==
    /\ InitSizing
    /\ [][\/ PageAppend(<<zh, chi>>)
          \/ Scan
          \/ TimerFire
          \/ \E w \in 1..Len(workers) :
                 \E response \in
                     SizingResponses(Len(workers[w].batchRequest.items)) :
                     Complete(w, response)
          \/ \E w \in 1..Len(workers) : DelayDone(w)
          \/ Tick]_vars
    /\ WF_vars(TimerFire)
    /\ WF_vars(Tick)
    /\ WF_vars(\E w \in 1..Len(workers) : DelayDone(w))
    /\ WF_vars(\E w \in 1..Len(workers) :
                   \E response \in
                       SizingResponses(Len(workers[w].batchRequest.items)) :
                       Complete(w, response))

\* ------------------------------------------------------------ utils/audio

\* the queue after synth.speak of repeat utterances of this call's text
speak(queue, c) ==
    queue \o [i \in 1..c.repeat |-> [text |-> c.text, call |-> c.call]]

\* playTextToSpeech(text, accent, rate, repeat) up to its await and, where
\* waitForVoices is resolved already, through the loop that queues
PlayTextToSpeech(text, repeat) ==
    /\ lastCall.call < MaxCalls
    /\ IF text = "" \/ repeat <= 0
       THEN UNCHANGED speech
       ELSE LET c == [call |-> lastCall.call + 1, text |-> text,
                      repeat |-> repeat]
            IN  /\ lastCall' = c
                /\ voices' = voices
                /\ IF isLoaded \/ voices
                   THEN /\ isLoaded' = TRUE
                        /\ speechQueue' = speak(<<>>, c)
                        /\ waiting' = waiting
                   ELSE /\ isLoaded' = isLoaded
                        /\ speechQueue' = <<>>
                        /\ waiting' = Append(waiting, c)
    /\ UNCHANGED << pipeline, overlay >>

\* the voices arrive: 'voiceschanged' runs the handler of every call that
\* waits, in the order they were added, and each call goes on to its loop
VoicesChanged ==
    /\ voices = FALSE
    /\ voices' = TRUE
    /\ isLoaded' = (isLoaded \/ waiting # <<>>)
    /\ speechQueue' =
           speechQueue \o concat([k \in 1..Len(waiting) |->
                                     speak(<<>>, waiting[k])])
    /\ waiting' = <<>>
    /\ UNCHANGED << lastCall, pipeline, overlay >>

\* the fallback timeout of the call that has waited longest fires: resolve
\* with the voices there are
WaitTimeout ==
    /\ waiting # <<>>
    /\ speechQueue' = speak(speechQueue, Head(waiting))
    /\ waiting' = Tail(waiting)
    /\ UNCHANGED << voices, isLoaded, lastCall, pipeline, overlay >>

\* the utterance being spoken ends and the next one starts
UtteranceEnd ==
    /\ speechQueue # <<>>
    /\ speechQueue' = Tail(speechQueue)
    /\ UNCHANGED << voices, isLoaded, waiting, lastCall, pipeline, overlay >>

NextSpeech ==
    \/ \E text \in { "", "word", "other" } : \E repeat \in 0..2 :
           PlayTextToSpeech(text, repeat)
    \/ VoicesChanged
    \/ WaitTimeout
    \/ UtteranceEnd

SpecSpeech == Init /\ [][NextSpeech]_vars

\* -------------------------------------------------- the overlay on a page

\* the overlay of a page whose pipeline is at rest, from single mode with
\* the hover trigger
SpecOverlay == Init /\ [][NextOverlay]_vars

\* the overlay with the promotions from its bubbles, the vocabulary being
\* edited nowhere else
NextPromote ==
    \/ \E id \in EntryIds :
           \E e \in [altKey : BOOLEAN, ctrlKey : { FALSE }, metaKey : { FALSE },
                  shiftKey : { FALSE }] :
               handleMouseOver(id, e)
    \/ \E id \in EntryIds : handleMouseOut(id)
    \/ \E id \in EntryIds : \E actionType \in { "Click", "DoubleClick" } :
           \E e \in [altKey : BOOLEAN, ctrlKey : { FALSE }, metaKey : { FALSE },
                  shiftKey : { FALSE }] :
               handleTriggerEvent(id, actionType, e)
    \/ \E t \in showTimeouts : ShowFire(t)
    \/ \E t \in hideTimeouts : HideFire(t)
    \/ \E id \in EntryIds : PromoteRead(id)
    \/ \E c \in promotions : PromoteWrite(c)
    \/ \E c \in promotions : PromoteSet(c)

SpecPromote == Init /\ [][NextPromote]_vars

\* ----------------------------------------------- pages with nested elements

\* documents whose elements lie inside one another: a block with one
\* ideograph; a block inside a block; a block inside an inline element and one
\* inside a technical element; an article with a paragraph, a navigation area
\* and a paragraph outside it; an editable area, the extension's own
\* container and an element out of the flow
TreePages ==
    { << createElement(1, "DIV", 0, <<zh>>, "") >>,
      << createElement(1, "DIV", 0, <<zh, chi>>, ""),
         createElement(2, "P", 1, <<chi, zh>>, "") >>,
      << createElement(1, "SPAN", 0, <<>>, ""),
         createElement(2, "DIV", 1, <<zh, chi>>, ""),
         createElement(3, "CODE", 0, <<>>, ""),
         createElement(4, "P", 3, <<zh, chi>>, "") >>,
      << createElement(1, "ARTICLE", 0, <<>>, ""),
         createElement(2, "P", 1, <<zh, chi>>, ""),
         createElement(3, "NAV", 1, <<>>, ""),
         createElement(4, "P", 3, <<chi, zh>>, ""),
         createElement(5, "P", 0, <<zh, zh>>, "") >>,
      << [createElement(1, "DIV", 0, <<>>, "") EXCEPT !.isContentEditable = TRUE],
         [createElement(2, "P", 1, <<zh, chi>>, "") EXCEPT
              !.isContentEditable = TRUE],
         [createElement(3, "DIV", 0, <<>>, "") EXCEPT !.container = TRUE],
         createElement(4, "P", 3, <<zh, chi>>, ""),
         [createElement(5, "P", 0, <<zh, chi>>, "") EXCEPT
              !.offsetParent = "null"],
         createElement(6, "P", 0, <<chi, chi>>, "") >> }

\* the number of paragraphs a page adds inside its elements
MaxInserts == 2

\* the page adds a paragraph as the last child of an element or of the body
PageInsert(parent, text) ==
    /\ appends < MaxInserts
    /\ appends' = appends + 1
    /\ Commit(observe(Cur,
           LET el == createElement(Len(dom) + 1, "P", parent, text, "")
               i == IF parent = 0 THEN Len(dom)
                    ELSE subtreeEnd(dom, indexOf(dom, parent))
           IN  [Cur EXCEPT !.dom = SubSeq(@, 1, i) \o << el >>
                                       \o SubSeq(@, i + 1, Len(@)),
                           !.applied = Append(@, <<>>)]))
    /\ UNCHANGED << initialScanTimeout, outside >>

InitTree ==
    /\ dom \in TreePages
    /\ buffer = <<>>
    /\ requestQueue = <<>>
    /\ isProcessingQueue = FALSE
    /\ timer = "null"
    /\ flushTimeout = -1
    /\ workers = <<>>
    /\ currentEngines \in EngineLists
    /\ findEnabled(currentEngines) # <<>>
    /\ currentAutoTranslate \in
           { [bilingualMode |-> FALSE, matchInflections |-> FALSE,
              translateWholePage |-> whole] : whole \in BOOLEAN }
    /\ pushed = <<>>
    /\ sent = <<>>
    /\ dropped = <<>>
    /\ applied = [i \in 1..Len(dom) |-> <<>>]
    /\ sinceDone = -1
    /\ sendGap = -1
    /\ appends = 0
    /\ accepted = {}
    /\ Loaded(main(FALSE, FALSE, FALSE))

NextTree ==
    \/ \E parent \in 0..Len(dom) : PageInsert(parent, <<zh, chi>>)
    \/ Scan
    \/ TimerFire
    \/ \E w \in 1..Len(workers) :
           Complete(w, Translated(join(
                           [k \in 1..Len(workers[w].batchRequest.items) |->
                               ReplyPart(k)],
                           delimiter)))
    \/ \E w \in 1..Len(workers) : DelayDone(w)
    \/ Tick

SpecTree == InitTree /\ [][NextTree]_vars

\* ------------------------------------------------------------ properties

\* the scan-status attribute of the element with this id in document d
statusIn(d, id) == d[indexOf(d, id)].scanned

\* let isMainContentSearch = !currentAutoTranslate.translateWholePage
isMainContentSearch == ~currentAutoTranslate.translateWholePage

\* the final statuses applyTranslation leaves
AnnotationStatuses == { "true", "skipped_no_en_match", "skipped_fuzzy_fail" }

\* the batches of a queue as the history records them
summaries(queue) == [i \in 1..Len(queue) |-> summary(queue[i].items)]

\* the workers waiting for a response
awaiting == { w \in 1..Len(workers) : workers[w].pc = "await" }

\* the settlements of sendMessage that carry no translated text
Failures == { Rejected, Unsuccessful, NoTargetText, EmptyTargetText }

\* the engine's answer of k parts
ReplyOf(k) ==
    Translated(join([i \in 1..k |-> ReplyPart(i)], ReplySeparator(k)))

\* C1: at most one processQueue loop is active and at most one request is
\* outstanding in every reachable state, the running flag is set exactly
\* while a loop is active, and a step that pushes batches while the flag is
\* set starts no loop and sends nothing.
C1_SingleWorker ==
    /\ [](/\ Len(workers) <= 1
          /\ Cardinality(awaiting) <= 1
          /\ isProcessingQueue <=> workers # <<>>)
    /\ [][(isProcessingQueue /\ Len(pushed') > Len(pushed))
              => (sent' = sent /\ Len(workers') = Len(workers)
                  /\ awaiting' = awaiting)]_vars

\* C1 witness: a batch was pushed while the worker waits for a response
C1_Witness ==
    /\ isProcessingQueue
    /\ Len(workers) = 1
    /\ workers[1].pc = "await"
    /\ requestQueue # <<>>

\* C2: whenever a request is sent after an earlier one completed, at least
\* rateLimitDelay ms have passed since that completion.
C2_RateLimit == sendGap = -1 \/ sendGap >= rateLimitDelay

\* C2 witness: a third request went out a full delay after the second
\* completed, with more batches still queued or not
C2_Witness == Len(sent) >= 3 /\ sendGap = rateLimitDelay

\* C3 as claimed: the batches sent are the first batches pushed, in push
\* order (none is passed over), and only the last one sent can be in flight.
C3_SentIsPrefixOfPushed ==
    /\ Len(sent) <= Len(pushed)
    /\ \A j \in 1..Len(sent) : sent[j] = pushed[j]
    /\ \A w \in awaiting :
           summary(workers[w].batchRequest.items) = sent[Len(sent)]

\* C3 amended: batches leave the queue in push order; each is either sent or,
\* when no engine is enabled as it is taken, dropped; the batches sent are
\* the batches taken minus the dropped ones, in push order; the queue holds
\* the batches not yet taken, in push order; only the last batch sent can be
\* in flight.
C3_FifoExceptDropped ==
    LET taken == Len(sent) + Len(dropped)
        isDropped(b) == \E k \in 1..Len(dropped) : dropped[k] = b
    IN  /\ taken <= Len(pushed)
        /\ sent = SelectSeq(SubSeq(pushed, 1, taken), LAMBDA b : ~isDropped(b))
        /\ dropped = SelectSeq(SubSeq(pushed, 1, taken), isDropped)
        /\ summaries(requestQueue) = SubSeq(pushed, taken + 1, Len(pushed))
        /\ Cardinality(awaiting) <= 1
        /\ \A w \in awaiting :
               summary(workers[w].batchRequest.items) = sent[Len(sent)]

\* C3 witness: a batch was dropped, and two batches pushed after it have been
\* sent in their push order
C3_Witness ==
    \E i, j, k \in 1..Len(pushed) :
        /\ i < j /\ j < k
        /\ dropped = << pushed[i] >>
        /\ sent = << pushed[j], pushed[k] >>

\* C4 as claimed: no batch pushed holds more than maxCharCount characters.
C4_CharBudget == \A i \in 1..Len(pushed) : pushed[i].chars <= maxCharCount

\* C5: every batch pushed holds at least one and at most maxBatchSize blocks.
C5_BatchSize ==
    \A i \in 1..Len(pushed) :
        Len(pushed[i].blocks) >= 1 /\ Len(pushed[i].blocks) <= maxBatchSize

\* C5 witness: a batch of exactly maxBatchSize blocks and a batch of one
C5_Witness ==
    /\ \E i \in 1..Len(pushed) : Len(pushed[i].blocks) = maxBatchSize
    /\ \E i \in 1..Len(pushed) : Len(pushed[i].blocks) = 1

\* C6: when sendMessage rejects or settles without translated text, every
\* block of the batch in flight is marked 'error', nothing is annotated, the
\* queue is untouched and the worker stays active in its rate-limit delay;
\* when a delay ends with batches queued and an engine enabled, the worker
\* sends the batch at the head of the queue.
C6_FailureMarksError ==
    /\ [][\A w \in awaiting : \A r \in Failures :
              Complete(w, r) =>
                  LET items == workers[w].batchRequest.items
                  IN  /\ \A i \in 1..Len(items) :
                             statusIn(dom', items[i].block) = "error"
                      /\ Len(dom') = Len(dom)
                      /\ applied' = applied
                      /\ requestQueue' = requestQueue
                      /\ isProcessingQueue'
                      /\ Len(workers') = Len(workers)
                      /\ workers'[w].pc = "delay"
                      /\ workers'[w].left = rateLimitDelay]_vars
    /\ [][\A w \in 1..Len(workers) :
              (/\ DelayDone(w)
               /\ requestQueue # <<>>
               /\ findEnabled(currentEngines) # <<>>)
              => /\ Len(workers') = Len(workers)
                 /\ workers'[w].pc = "await"
                 /\ workers'[w].batchRequest = Head(requestQueue)
                 /\ requestQueue' = Tail(requestQueue)
                 /\ sent' = Append(sent, summary(Head(requestQueue).items))]_vars

\* C6 witness: a batch of two blocks failed, both blocks are marked 'error',
\* and the batch queued behind it has been sent
C6_Witness ==
    \E k \in 1..(Len(sent) - 1) :
        /\ Len(sent[k].blocks) >= 2
        /\ \A i \in 1..Len(sent[k].blocks) :
               statusIn(dom, sent[k].blocks[i]) = "error"
        /\ sendGap = rateLimitDelay

\* C7 as claimed: every block of a batch taken from the queue while no engine
\* is enabled is marked 'error'.
C7_NoEngineMarksError ==
    \A k \in 1..Len(dropped) :
        \A i \in 1..Len(dropped[k].blocks) :
            statusIn(dom, dropped[k].blocks[i]) = "error"

\* C8: a step in which a batch is taken while no engine is enabled sends
\* nothing, leaves the running flag cleared and no worker active, and leaves
\* the batches behind the taken ones queued in their order.
C8_NoEngineStops ==
    [][Len(dropped') > Len(dropped) =>
           LET n == Len(dropped') - Len(dropped)
               before == summaries(requestQueue)
                             \o SubSeq(pushed', Len(pushed) + 1, Len(pushed'))
           IN  /\ sent' = sent
               /\ ~isProcessingQueue'
               /\ workers' = <<>>
               /\ n <= Len(before)
               /\ summaries(requestQueue') = SubSeq(before, n + 1, Len(before))
               /\ SubSeq(dropped', Len(dropped) + 1, Len(dropped'))
                      = SubSeq(before, 1, n)]_vars

\* C8 witness: the worker has stopped on a batch it could not send, and a
\* batch pushed after that one is still queued
C8_Witness ==
    /\ dropped # <<>>
    /\ requestQueue # <<>>
    /\ ~isProcessingQueue
    /\ workers = <<>>
    /\ findEnabled(currentEngines) = <<>>

\* C9: when the engine answers a batch of n blocks with n - 1 parts, the last
\* block gets the empty string as its translation and goes through the
\* annotation stage like the others; no block of the batch is marked 'error'
\* and the worker goes on to its rate-limit delay.
C9_ShortResponse ==
    [][\A w \in awaiting :
           LET items == workers[w].batchRequest.items
               n == Len(items)
           IN  (n >= 2 /\ Complete(w, ReplyOf(n - 1))) =>
                   /\ applied'[items[n].block]
                          = Append(applied[items[n].block], <<>>)
                   /\ \A i \in 1..n :
                          statusIn(dom', items[i].block) \in AnnotationStatuses
                   /\ statusIn(dom', items[n].block) = "skipped_no_en_match"
                   /\ isProcessingQueue'
                   /\ Len(workers') = Len(workers)
                   /\ workers'[w].pc = "delay"]_vars

\* C9 witness: a batch of three blocks was answered with two parts
C9_Witness ==
    \E k \in 1..Len(sent) :
        /\ Len(sent[k].blocks) = 3
        /\ applied[sent[k].blocks[1]] = << ReplyPart(1) >>
        /\ applied[sent[k].blocks[2]] = << ReplyPart(2) >>
        /\ applied[sent[k].blocks[3]] = << <<>> >>
        /\ statusIn(dom, sent[k].blocks[3]) = "skipped_no_en_match"

\* C10: when the engine answers a batch of n blocks with k parts, the block
\* at position i of the batch gets part i (the empty string beyond k) in one
\* call of applyTranslation, parts beyond n are dropped, and no block outside
\* the batch gets a translation.
C10_PartsInOrder ==
    [][\A w \in awaiting :
           LET items == workers[w].batchRequest.items
               n == Len(items)
               inBatch(id) == \E i \in 1..n : items[i].block = id
           IN  \A k \in 1..(n + 1) :
                   Complete(w, ReplyOf(k)) =>
                       /\ \A i \in 1..n :
                              applied'[items[i].block]
                                  = Append(applied[items[i].block],
                                           IF i <= k THEN ReplyPart(i)
                                           ELSE <<>>)
                       /\ \A id \in 1..Len(applied) :
                              ~inBatch(id) => applied'[id] = applied[id]
                       /\ \A id \in (Len(applied) + 1)..Len(applied') :
                              applied'[id] = <<>>]_vars

\* C10 witness: the two blocks of a batch each got their own part, and the
\* worker is in the delay that follows
C10_Witness ==
    \E k \in 1..Len(sent) :
        /\ Len(sent[k].blocks) = 2
        /\ applied[sent[k].blocks[1]] = << ReplyPart(1) >>
        /\ applied[sent[k].blocks[2]] = << ReplyPart(2) >>
        /\ \E w \in 1..Len(workers) : workers[w].pc = "delay"
        /\ Len(sent) = k

\* the number of times the element with this id was buffered by add: its
\* places in the batches pushed so far and in the buffer
timesAdded(id) ==
    Cardinality({ p \in { <<k, i>> : k \in 1..Len(pushed), i \in 1..maxBatchSize } :
                    /\ p[2] <= Len(pushed[p[1]].blocks)
                    /\ pushed[p[1]].blocks[p[2]] = id })
        + Cardinality({ i \in 1..Len(buffer) : buffer[i].block = id })

\* the number of requests sent that carry the text of the element with this id
timesSent(id) ==
    Cardinality({ p \in { <<k, i>> : k \in 1..Len(sent), i \in 1..maxBatchSize } :
                    /\ p[2] <= Len(sent[p[1]].blocks)
                    /\ sent[p[1]].blocks[p[2]] = id })

\* C11: in every reachable state an element has been buffered by add exactly
\* once if it carries the scan-status attribute and never otherwise, so it
\* belongs to at most one batch, and its text went out in at most one request.
C11_AddedOnce ==
    \A i \in 1..Len(dom) :
        /\ timesAdded(dom[i].id) = IF dom[i].scanned # "" THEN 1 ELSE 0
        /\ timesSent(dom[i].id) <= 1

\* C11 witness: the block of the first batch holds a final status, a second
\* batch was pushed and a later scan has buffered a third block
C11_Witness ==
    /\ Len(pushed) = 2
    /\ statusIn(dom, pushed[1].blocks[1]) \in AnnotationStatuses \cup {"error"}
    /\ buffer # <<>>
    /\ timesSent(pushed[1].blocks[1]) = 1

\* C12 as claimed: every element the scanner accepts in a run carries the
\* scan-status attribute after the run and is rejected by the scanner then.
C12_AcceptedAreMarked ==
    [][Scan => \A i \in 1..Len(dom) :
                   acceptNode(dom, dom[i], isMainContentSearch) = "FILTER_ACCEPT"
                       => /\ dom'[i].scanned # ""
                          /\ acceptNode(dom', dom'[i], isMainContentSearch) = "FILTER_REJECT"]_vars

\* C12 amended: a second run of the scanner right after a run changes
\* nothing, so it buffers no block; every element that add buffered in the
\* run carries the attribute and is rejected by the scanner afterwards; the
\* elements the scanner accepted that carry no attribute afterwards are those
\* add refused, whose trimmed text is shorter than two characters.
C12_ScanIdempotent ==
    [][Scan => /\ scanAndTranslatePage(Cur') = Cur'
               /\ Len(dom') = Len(dom)
               /\ \A i \in 1..Len(dom) :
                      /\ (dom[i].scanned = "" /\ dom'[i].scanned # "")
                             => acceptNode(dom', dom'[i], isMainContentSearch) = "FILTER_REJECT"
                      /\ (acceptNode(dom, dom[i], isMainContentSearch) = "FILTER_ACCEPT"
                              /\ dom'[i].scanned = "")
                             => /\ Len(trim(dom[i].innerText)) < 2
                                /\ acceptNode(dom', dom'[i], isMainContentSearch) = "FILTER_ACCEPT"]_vars

\* C12 witness: a scan has buffered a block and left an earlier element, which
\* the scanner accepts and add refuses, without the attribute
C12_Witness ==
    \E i, j \in 1..Len(dom) :
        /\ j < i
        /\ dom[i].scanned = "pending"
        /\ \E k \in 1..Len(buffer) : buffer[k].block = dom[i].id
        /\ dom[j].scanned = ""
        /\ acceptNode(dom, dom[j], isMainContentSearch) = "FILTER_ACCEPT"

\* the values of the scan-status attribute that end a block's processing
FinalStatuses == AnnotationStatuses \cup { "error" }

batchesHeld ==
    { requestQueue[k] : k \in 1..Len(requestQueue) }
        \cup { workers[w].batchRequest : w \in awaiting }

\* C14 as claimed: the combined text of every batch, split with the response
\* split pattern, gives back the texts of the batch's blocks in their order.
C14_RoundTrip ==
    \A b \in batchesHeld :
        split(b.combinedText) = [i \in 1..Len(b.items) |-> b.items[i].sourceText]

\* the elements a step buffers, in document order: those that get the
\* 'pending' mark in the step
newlyPending ==
    SelectSeq(dom, LAMBDA el : el.scanned = ""
                                /\ statusIn(dom', el.id) = "pending")

\* C15 as claimed: when a scan that starts with an empty buffer adds blocks of
\* which the first n, with n below maxBatchSize, hold more than maxCharCount
\* characters together, the scan pushes a batch at once and that batch has
\* fewer than n blocks.
C15_FlushBelowN ==
    [][(Scan /\ buffer = <<>>) =>
           LET added == newlyPending
               chars(n) == charCount([i \in 1..n |->
                               [sourceText |-> trim(added[i].innerText)]])
           IN  \A n \in 1..Len(added) :
                   (n < maxBatchSize /\ chars(n) > maxCharCount)
                       => /\ Len(pushed') > Len(pushed)
                          /\ Len(pushed'[Len(pushed) + 1].blocks) < n]_vars

\* C16 as claimed: after a scan that buffers a block and ends with the
\* buffer below both limits, the debounce timer has its full delay to go.
C16_TimerRestarts ==
    [][(Scan /\ newlyPending # <<>> /\ buffer' # <<>>)
           => timer' = "set" /\ flushTimeout' = debounceDelay]_vars

\* C16 amended: after a scan that buffers a block and ends with the buffer
\* below both limits, the timer is armed; it has its full delay to go when
\* no timer was armed before the scan or the scan flushed, and it keeps the
\* time it had left otherwise.  When the timer fires, all the blocks buffered
\* go into one batch and the timer is cleared.
C16_TimerKeptRunning ==
    /\ [][(Scan /\ newlyPending # <<>> /\ buffer' # <<>>)
              => /\ timer' = "set"
                 /\ flushTimeout' = IF timer = "null" \/ Len(pushed') > Len(pushed)
                                    THEN debounceDelay
                                    ELSE flushTimeout]_vars
    /\ [][(TimerFire /\ buffer # <<>>)
              => /\ pushed' = Append(pushed, summary(buffer))
                 /\ buffer' = <<>>
                 /\ timer' = "null"
                 /\ flushTimeout' = -1]_vars

\* C16 witness: part of the delay has passed since the timer was armed and
\* two blocks are buffered
C16_Witness ==
    /\ timer = "set"
    /\ flushTimeout > 0
    /\ flushTimeout < debounceDelay
    /\ Len(buffer) >= 2

\* text w occurs in text t at position q
occursAt(t, w, q) ==
    /\ q >= 1
    /\ q + Len(w) - 1 <= Len(t)
    /\ SubSeq(t, q, q + Len(w) - 1) = w

\* C17: when a block holding one text node is annotated, the nodes that
\* replace the text node, read in order with each annotation standing for its
\* matched text, spell the text of the node; each annotation carries a
\* candidate's text and that candidate's entry; each plain text node holds no
\* occurrence of a candidate's text; a text without any occurrence is left as
\* the one text node it was.  For a block of any content the text is kept.
C17_TextPreserved ==
    [][\A validMatches \in MatchLists :
           AnnotateBlock(validMatches) =>
               LET before == dom[1].childNodes
                   nodes == dom'[1].childNodes
                   known(w) == \E i \in 1..Len(validMatches) :
                                   validMatches[i].text = w
                   free(t) == \A i \in 1..Len(validMatches) :
                                  \A q \in 1..Len(t) :
                                      ~occursAt(t, validMatches[i].text, q)
               IN  /\ textOf(nodes) = textOf(before)
                   /\ (Len(before) = 1 /\ before[1].kind = "text") =>
                          /\ \A k \in 1..Len(nodes) :
                                 IF nodes[k].kind = "text"
                                 THEN free(nodes[k].nodeValue)
                                 ELSE /\ nodes[k].className = "context-lingo-word"
                                      /\ \E i \in 1..Len(validMatches) :
                                             /\ validMatches[i].text
                                                    = nodes[k].original
                                             /\ validMatches[i].entry.id
                                                    = nodes[k].entry
                          /\ free(before[1].nodeValue) => nodes = before]_vars

\* C17 witness: a text of a matched character between two spaces has become a
\* space, the annotation of the character, and a space
C17_Witness ==
    /\ dom[1].scanned = "true"
    /\ dom[1].innerText = <<SP, zh, SP>>
    /\ Len(dom[1].childNodes) = 3
    /\ dom[1].childNodes[1] = createTextNode(<<SP>>)
    /\ dom[1].childNodes[2].kind = "span"
    /\ dom[1].childNodes[2].original = <<zh>>
    /\ dom[1].childNodes[2].entry = "cat"
    /\ dom[1].childNodes[3] = createTextNode(<<SP>>)

\* the position in the text of the block at which the node at place k of
\* these nodes starts
startOf(nodes, k) == 1 + Len(textOf(SubSeq(nodes, 1, k - 1)))

\* C18 as claimed: when a block holding one text node is annotated, no
\* annotation covers a position of an occurrence in the text of a candidate
\* longer than the annotated one.
C18_LongerWins ==
    [][\A validMatches \in MatchLists :
           (/\ AnnotateBlock(validMatches)
            /\ Len(dom[1].childNodes) = 1
            /\ dom[1].childNodes[1].kind = "text") =>
               LET text == dom[1].childNodes[1].nodeValue
                   nodes == dom'[1].childNodes
               IN  \A k \in 1..Len(nodes) :
                       nodes[k].kind = "span" =>
                           LET from == startOf(nodes, k)
                               to == from + Len(nodes[k].original) - 1
                           IN  \A j \in 1..Len(validMatches) :
                                   \A q \in 1..Len(text) :
                                       LET w == validMatches[j].text
                                       IN  (/\ Len(w) > Len(nodes[k].original)
                                            /\ occursAt(text, w, q))
                                               => \/ q + Len(w) - 1 < from
                                                  \/ to < q]_vars

\* C19: when a block holding one text node is annotated, every annotation
\* stands at a place of the text where its matched text is, the annotations
\* follow one another without sharing a position, and the plain pieces and
\* the annotations together cover each position of the text once.
C19_SpansDisjoint ==
    [][\A validMatches \in MatchLists :
           (/\ AnnotateBlock(validMatches)
            /\ Len(dom[1].childNodes) = 1
            /\ dom[1].childNodes[1].kind = "text") =>
               LET text == dom[1].childNodes[1].nodeValue
                   nodes == dom'[1].childNodes
                   spans == { k \in 1..Len(nodes) : nodes[k].kind = "span" }
                   from(k) == startOf(nodes, k)
                   to(k) == startOf(nodes, k) + Len(nodes[k].original) - 1
               IN  /\ \A k \in spans :
                          /\ Len(nodes[k].original) > 0
                          /\ occursAt(text, nodes[k].original, from(k))
                   /\ \A k, l \in spans : k < l => to(k) < from(l)
                   /\ startOf(nodes, Len(nodes) + 1) = Len(text) + 1]_vars

\* C19 witness: one text node got two annotations, of a two-character match
\* and of a one-character match next to it
C19_Witness ==
    /\ dom[1].scanned = "true"
    /\ dom[1].innerText = <<zh, chi, zh>>
    /\ Len(dom[1].childNodes) = 5
    /\ dom[1].childNodes[2].kind = "span"
    /\ dom[1].childNodes[2].entry = "category"
    /\ dom[1].childNodes[4].kind = "span"
    /\ dom[1].childNodes[4].entry = "cat"

\* no context-lingo-word element among these nodes or below them has an
\* annotation or a wrapper above it; inside tells whether the nodes have one
RECURSIVE notNested(_, _)
notNested(childNodes, inside) ==
    \A k \in 1..Len(childNodes) :
        childNodes[k].kind = "span" =>
            /\ inside => childNodes[k].className # "context-lingo-word"
            /\ notNested(childNodes[k].childNodes,
                         inside \/ childNodes[k].className \in AnnotationClasses)

\* C20: in every reachable state no annotation element of a block has an
\* annotation or a wrapper above it, and the annotation of a block leaves
\* every annotation and wrapper the block already held as it was, the text
\* nodes inside it included.
C20_NoNestedAnnotation ==
    /\ [](\A i \in 1..Len(dom) : notNested(dom[i].childNodes, FALSE))
    /\ [][\A validMatches \in MatchLists :
              AnnotateBlock(validMatches) =>
                  \A k \in 1..Len(dom[1].childNodes) :
                      LET node == dom[1].childNodes[k]
                      IN  (node.kind = "span"
                               /\ node.className \in AnnotationClasses)
                              => \E l \in 1..Len(dom'[1].childNodes) :
                                     dom'[1].childNodes[l] = node]_vars

\* C20 witness: a block that held an annotation in front of a text was
\* annotated: the old annotation is as it was and the text got a new one
C20_Witness ==
    /\ dom[1].scanned = "true"
    /\ Len(dom[1].childNodes) = 4
    /\ dom[1].childNodes[1].kind = "span"
    /\ dom[1].childNodes[1].className = "context-lingo-word"
    /\ dom[1].childNodes[1].childNodes
           = << createTextNode(<<"c", "a", "t">>), createTextNode(<<zh>>) >>
    /\ dom[1].childNodes[3].kind = "span"
    /\ dom[1].childNodes[3].className = "context-lingo-word"

C22_OneRescanPerBurst ==
    [][/\ Len(observerTimeouts') <= 1
       /\ sinceMutation' < 0 => observerTimeouts' = <<>>
       /\ sinceMutation' >= 0 =>
              /\ observerTimeouts' = << observerDelay - sinceMutation' >>
              /\ debounceTimer' = 1
       /\ (\E k \in 1..Len(observerTimeouts) : ObserverRescan(k)) =>
              /\ sinceMutation = observerDelay
              /\ observerTimeouts' = <<>>]_vars

\* C22 witness: the page has added two paragraphs; the initial scan has not
\* run; the observer's rescan has run after the later addition and has put
\* both paragraphs in one batch; no timeout of the observer is pending
C22_Witness ==
    /\ observing
    /\ appends >= 2
    /\ sinceMutation = -1
    /\ observerTimeouts = <<>>
    /\ initialScanTimeout = 0
    /\ ~unanswered
    /\ Len(pushed) = 1
    /\ Len(pushed[1].blocks) = 2
    /\ accepted = { 1, 2 }

\* C23 as claimed: no TRIGGER_TRANSLATION message has arrived without
\* scanAndTranslatePage being invoked, whatever the host's blacklist and
\* whitelist status and the auto-translate setting were when main ran.
C23_TriggerScans == ~unanswered

\* C29 as claimed: no scan accepts a bilingual block the extension inserted.
C29_InsertedNotAccepted ==
    \A i \in 1..Len(dom) :
        dom[i].className = "context-lingo-bilingual-block"
            => dom[i].id \notin accepted

\* C24: the bubble list never holds two bubbles of one entry id, and in
\* single mode no hover, click or timer event takes it from at most one bubble
\* to more than one: a bubble shown for another entry replaces the list.
C24_BubblesDistinct ==
    [][/\ \A j, k \in 1..Len(activeBubbles') :
              activeBubbles'[j].id = activeBubbles'[k].id => j = k
       /\ (/\ ~interactionConfig.allowMultipleBubbles
           /\ interactionConfig' = interactionConfig
           /\ Len(activeBubbles) <= 1) => Len(activeBubbles') <= 1
       /\ \A id \in ids(activeBubbles') \ ids(activeBubbles) :
              ~interactionConfig.allowMultipleBubbles
                  => Len(activeBubbles') = 1 /\ activeBubbles'[1].id = id
      ]_vars

\* single mode: the bubble of e2 is the only one shown, by a show timeout
\* that has fired, while the hide timeout of e1 is still pending
C24_Witness ==
    /\ ~interactionConfig.allowMultipleBubbles
    /\ ids(activeBubbles) = { "e2" }
    /\ showTimer = -1
    /\ \E t \in hideTimeouts : t.id = "e1"

\* C25: no id has two pending hide timeouts, and while the pointer is on the
\* annotated word of a shown bubble or on the bubble, having entered it last,
\* no hide timeout of that bubble's id is pending.
C25_ReentryCancels ==
    /\ \A id \in EntryIds :
           Cardinality({ t \in hideTimeouts : t.id = id }) <= 1
    /\ \A t \in hideTimeouts :
           t.id \in ids(activeBubbles)
               => pointer.over = "none" \/ pointer.id # t.id

\* C26: once the promotions of e1 and e2 have both completed, whatever the
\* order of their reads and writes, both entries are in the Learning category
\* in the store.
C26_BothLearning ==
    (promoted = EntryIds /\ promotions = {})
        => /\ ids(storedEntries) = EntryIds
           /\ \A k \in 1..Len(storedEntries) :
                  storedEntries[k].category = "LearningWord"

\* C27: every block with status 'pending' is in exactly one place: once in
\* the buffer, once in one queued batch, or once in the batch in flight.
C27_PendingInOnePlace ==
    \A i \in 1..Len(dom) :
        dom[i].scanned = "pending" =>
            LET block == dom[i].id
                inBuffer == { k \in 1..Len(buffer) : buffer[k].block = block }
                inQueue ==
                    { qk \in (1..Len(requestQueue)) \X (1..Len(dom)) :
                          /\ qk[2] <= Len(requestQueue[qk[1]].items)
                          /\ requestQueue[qk[1]].items[qk[2]].block = block }
                inFlight ==
                    { wk \in awaiting \X (1..Len(dom)) :
                          /\ wk[2] <= Len(workers[wk[1]].batchRequest.items)
                          /\ workers[wk[1]].batchRequest.items[wk[2]].block
                                 = block }
            IN  Cardinality(inBuffer) + Cardinality(inQueue)
                    + Cardinality(inFlight) = 1

\* C28: with an engine enabled throughout and every request settling, a
\* buffer that is not empty always has its flush timeout pending, a queue
\* that is not empty always has a worker, and every block that has the status
\* 'pending' gets another status later.
C28_PendingLeaves ==
    /\ [](buffer # <<>> => flushTimeout >= 0)
    /\ [](requestQueue # <<>> => isProcessingQueue /\ workers # <<>>)
    /\ \A block \in 1..MaxAppends :
           (\E i \in 1..Len(dom) :
                dom[i].id = block /\ dom[i].scanned = "pending")
               ~> (\E i \in 1..Len(dom) :
                       dom[i].id = block /\ dom[i].scanned # "pending")

\* two batches have been sent, the second as soon as the delay after the
\* first had passed, so it was queued while the worker was busy; the worker
\* has stopped and no block is left pending
C28_Witness ==
    /\ Len(sent) >= 2
    /\ sendGap = rateLimitDelay
    /\ workers = <<>>
    /\ buffer = <<>>
    /\ requestQueue = <<>>
    /\ \A i \in 1..Len(dom) : dom[i].scanned \notin { "", "pending" }

\* C30: every utterance spoken or queued belongs to the last call of
\* playTextToSpeech, and there are at most `repeat` of them.
C30_OnlyLastCall ==
    /\ \A k \in 1..Len(speechQueue) : speechQueue[k].call = lastCall.call
    /\ Len(speechQueue) <= lastCall.repeat

====
